---- MODULE Spec2Model ----
(***************************************************************************)
(* The alignment engine of align_vtt_vtt_llm.py: the segment splitter, the *)
(* candidate resolver, smart fallback, the oracle adapter and the          *)
(* orchestrator loop of align_with_llm, as a state machine.                *)
(*                                                                         *)
(* Times are whole seconds (integers).  Every other float of the program   *)
(* (ratios, multipliers, confidences) is an exact rational <<n, d>> in     *)
(* lowest terms with d > 0.  A text is a sequence of tokens: word tokens   *)
(* and the token Sep, one match of the regular expression [.!?]\s+ .       *)
(***************************************************************************)
EXTENDS Integers, Sequences, FiniteSets, TLC

VARIABLES speaker_vtt, text_vtt, client, expanded_text_vtt, aligned, stats,
          llm_stats, i, pc, candidates, used_tolerance, fallback_result,
          last_call, twin

vars == <<speaker_vtt, text_vtt, client, expanded_text_vtt, aligned, stats,
          llm_stats, i, pc, candidates, used_tolerance, fallback_result,
          last_call, twin>>

(***************************************************************************)
(* Bounds of the model.                                                    *)
(***************************************************************************)
MaxSpk == 3

MaxText == 2

(* the bounds of the runs that follow the context handed to the oracle *)
MaxContextSpk == 2

MaxContextText == 4

(***************************************************************************)
(* Exact rational arithmetic standing for the program's float arithmetic.  *)
(***************************************************************************)
Abs(x) == IF x < 0 THEN -x ELSE x

Min2(a, b) == IF a < b THEN a ELSE b

Max2(a, b) == IF a > b THEN a ELSE b

RECURSIVE GCD(_, _)
GCD(a, b) == IF b = 0 THEN a ELSE GCD(b, a % b)

R(n, d) ==
    LET s == IF d < 0 THEN -1 ELSE 1
        g == GCD(Abs(n), Abs(d))
    IN  <<(s * n) \div g, (s * d) \div g>>

FromInt(n) == <<n, 1>>

RatMul(a, b) == R(a[1] * b[1], a[2] * b[2])

RatSub(a, b) == R(a[1] * b[2] - b[1] * a[2], a[2] * b[2])

RatLT(a, b) == a[1] * b[2] < b[1] * a[2]

RatLE(a, b) == a[1] * b[2] <= b[1] * a[2]

RatMin(a, b) == IF RatLT(b, a) THEN b ELSE a

RatMax(a, b) == IF RatLT(a, b) THEN b ELSE a

(***************************************************************************)
(* Slices of Python lists.                                                 *)
(***************************************************************************)
LastN(s, n) ==
    IF Len(s) <= n THEN s ELSE SubSeq(s, Len(s) - n + 1, Len(s))

FirstN(s, n) == IF Len(s) <= n THEN s ELSE SubSeq(s, 1, n)

(* s[a:b] with 0-based a and b, both non-negative *)
Slice(s, a, b) == SubSeq(s, a + 1, Min2(b, Len(s)))

(***************************************************************************)
(* VTTSegment and the input timelines.                                     *)
(***************************************************************************)
Sep == ". "

Dot == "."

VTTSegment(start, end, speaker, text) ==
    [start |-> start, end |-> end, speaker |-> speaker, text |-> text]

(* what parse_vtt_with_speakers yields: a label and no text *)
SpeakerPool ==
    << VTTSegment(0, 5, "Alice", <<>>),
       VTTSegment(5, 10, "Bob", <<>>),
       VTTSegment(10, 15, "Alice", <<>>),
       VTTSegment(15, 20, "Bob", <<>>),
       VTTSegment(1, 20, "Alice", <<>>),
       VTTSegment(5, 15, "Bob", <<>>) >>

(* what parse_vtt_without_speakers yields: a text and the empty label *)
TextPool ==
    << VTTSegment(0, 10, "", <<"hello world", Sep, "how are you.">>),
       VTTSegment(0, 20, "",
                  <<"one", Sep, "two", Sep, "three", Sep, "four", Sep, "five">>),
       VTTSegment(0, 20, "", <<"long">>),
       VTTSegment(10, 20, "", <<"single">>),
       VTTSegment(0, 6, "", <<"short">>),
       VTTSegment(6, 9, "", <<"gap">>),
       VTTSegment(5, 5, "", <<"instant">>),
       VTTSegment(30, 35, "", <<"far">>) >>

RECURSIVE Pick(_, _, _)
Pick(pool, idx, k) ==
    IF k > Len(pool) THEN <<>>
    ELSE IF k \in idx THEN <<pool[k]>> \o Pick(pool, idx, k + 1)
         ELSE Pick(pool, idx, k + 1)

(* the timelines of at most max cues, in file order *)
Timelines(pool, max) ==
    { Pick(pool, idx, 1) :
        idx \in { s \in SUBSET (1..Len(pool)) : Cardinality(s) <= max } }

(***************************************************************************)
(* calculate_overlap                                                       *)
(***************************************************************************)
(* calculate_overlap without the max(0, ...) of line 253 *)
calculate_overlap_signed(seg1_start, seg1_end, seg2_start, seg2_end) ==
    Min2(seg1_end, seg2_end) - Max2(seg1_start, seg2_start)

calculate_overlap(seg1_start, seg1_end, seg2_start, seg2_end) ==
    LET overlap_start == Max2(seg1_start, seg2_start)
        overlap_end == Min2(seg1_end, seg2_end)
    IN  Max2(0, overlap_end - overlap_start)

(***************************************************************************)
(* list.sort(key = overlap_duration, reverse = True): a stable sort, so    *)
(* entries with equal keys keep their relative order.                      *)
(***************************************************************************)
RECURSIVE InsertDesc(_, _)
InsertDesc(sorted, c) ==
    IF sorted = <<>> THEN <<c>>
    ELSE IF Head(sorted).overlap_duration >= c.overlap_duration
         THEN <<Head(sorted)>> \o InsertDesc(Tail(sorted), c)
         ELSE <<c>> \o sorted

RECURSIVE SortDesc(_)
SortDesc(cs) ==
    IF cs = <<>> THEN <<>>
    ELSE InsertDesc(SortDesc(SubSeq(cs, 1, Len(cs) - 1)), cs[Len(cs)])

(***************************************************************************)
(* find_speaker_candidates                                                 *)
(***************************************************************************)
(* the penalty with the gap measured against the tolerance, not twice it *)
tolerance_penalty_single_width(spk_seg, text_seg, tolerance) ==
    LET gap == Min2(Abs(spk_seg.end - text_seg.start),
                    Abs(text_seg.end - spk_seg.start))
    IN  RatMax(R(85, 100),
               RatSub(FromInt(1), RatMul(R(gap, tolerance), R(15, 100))))

tolerance_penalty(spk_seg, text_seg, tolerance) ==
    LET gap == Min2(Abs(spk_seg.end - text_seg.start),
                    Abs(text_seg.end - spk_seg.start))
    IN  RatMax(R(85, 100),
               RatSub(FromInt(1), RatMul(R(gap, tolerance * 2), R(15, 100))))

(* raw_candidate with a strict overlap of 0 admitted as a strict candidate *)
raw_candidate_zero_admitted(spk_seg, text_seg, tolerance) ==
    LET text_duration == text_seg.end - text_seg.start
        strict_overlap == calculate_overlap(spk_seg.start, spk_seg.end,
                                            text_seg.start, text_seg.end)
        tolerant_overlap == calculate_overlap(spk_seg.start - tolerance,
                                              spk_seg.end + tolerance,
                                              text_seg.start, text_seg.end)
    IN  IF tolerance > 0 /\ strict_overlap = 0
        THEN IF tolerant_overlap > 0
             THEN << [speaker |-> spk_seg.speaker,
                      overlap_duration |-> tolerant_overlap,
                      overlap_ratio |-> IF text_duration > 0
                                        THEN R(tolerant_overlap, text_duration)
                                        ELSE FromInt(0),
                      confidence_multiplier |->
                          tolerance_penalty(spk_seg, text_seg, tolerance),
                      used_tolerance |-> TRUE] >>
             ELSE <<>>
        ELSE IF strict_overlap >= 0
             THEN << [speaker |-> spk_seg.speaker,
                      overlap_duration |-> strict_overlap,
                      overlap_ratio |-> IF text_duration > 0
                                        THEN R(strict_overlap, text_duration)
                                        ELSE FromInt(0),
                      confidence_multiplier |-> FromInt(1),
                      used_tolerance |-> FALSE] >>
             ELSE <<>>

(* the candidates one speaker segment contributes: none or one *)
raw_candidate(spk_seg, text_seg, tolerance) ==
    LET text_duration == text_seg.end - text_seg.start
        strict_overlap == calculate_overlap(spk_seg.start, spk_seg.end,
                                            text_seg.start, text_seg.end)
        tolerant_overlap == calculate_overlap(spk_seg.start - tolerance,
                                              spk_seg.end + tolerance,
                                              text_seg.start, text_seg.end)
    IN  IF tolerance > 0 /\ strict_overlap = 0
        THEN IF tolerant_overlap > 0
             THEN << [speaker |-> spk_seg.speaker,
                      overlap_duration |-> tolerant_overlap,
                      overlap_ratio |-> IF text_duration > 0
                                        THEN R(tolerant_overlap, text_duration)
                                        ELSE FromInt(0),
                      confidence_multiplier |->
                          tolerance_penalty(spk_seg, text_seg, tolerance),
                      used_tolerance |-> TRUE] >>
             ELSE <<>>
        ELSE IF strict_overlap > 0
             THEN << [speaker |-> spk_seg.speaker,
                      overlap_duration |-> strict_overlap,
                      overlap_ratio |-> IF text_duration > 0
                                        THEN R(strict_overlap, text_duration)
                                        ELSE FromInt(0),
                      confidence_multiplier |-> FromInt(1),
                      used_tolerance |-> FALSE] >>
             ELSE <<>>

RECURSIVE raw_candidates(_, _, _)
raw_candidates(text_seg, speaker_segs, tolerance) ==
    IF speaker_segs = <<>> THEN <<>>
    ELSE raw_candidate(Head(speaker_segs), text_seg, tolerance)
         \o raw_candidates(text_seg, Tail(speaker_segs), tolerance)

(* speaker_totals: one entry per speaker in order of first appearance, the *)
(* multiplier and used_tolerance of the first, the durations summed        *)
RECURSIVE speaker_totals(_, _)
speaker_totals(cands, totals) ==
    IF cands = <<>> THEN totals
    ELSE LET c == Head(cands)
             known == \E k \in 1..Len(totals) : totals[k].speaker = c.speaker
             added == IF known THEN totals
                      ELSE Append(totals,
                                  [speaker |-> c.speaker,
                                   overlap_duration |-> 0,
                                   overlap_ratio |-> FromInt(0),
                                   confidence_multiplier |->
                                       c.confidence_multiplier,
                                   used_tolerance |-> c.used_tolerance])
             summed == [k \in 1..Len(added) |->
                          IF added[k].speaker = c.speaker
                          THEN [added[k] EXCEPT !.overlap_duration =
                                    @ + c.overlap_duration]
                          ELSE added[k]]
         IN  speaker_totals(Tail(cands), summed)

(* the division of line 340 raises ZeroDivisionError exactly when some     *)
(* total exists and the text segment has no duration                       *)
find_speaker_candidates_raises(text_seg, speaker_segs, tolerance) ==
    /\ text_seg.end - text_seg.start = 0
    /\ raw_candidates(text_seg, speaker_segs, tolerance) # <<>>

find_speaker_candidates(text_seg, speaker_segs, tolerance) ==
    LET text_duration == text_seg.end - text_seg.start
        sorted == SortDesc(raw_candidates(text_seg, speaker_segs,
                                              tolerance))
        totals == speaker_totals(sorted, <<>>)
        recalculated == [k \in 1..Len(totals) |->
                           [totals[k] EXCEPT !.overlap_ratio =
                               R(totals[k].overlap_duration, text_duration)]]
    IN  SortDesc(recalculated)

(***************************************************************************)
(* split_turboscribe_segment_by_speakers                                   *)
(***************************************************************************)
(* re.split(r'([.!?]\s+)', text): the pieces between the separators, which *)
(* may be empty, alternating with the captured separators                  *)
RECURSIVE re_split(_)
re_split(text) ==
    IF text = <<>> THEN << <<>> >>
    ELSE LET rest == re_split(Tail(text))
         IN  IF Head(text) = Sep
             THEN << <<>>, <<Sep>> >> \o rest
             ELSE << <<Head(text)>> \o Head(rest) >> \o Tail(rest)

(* str.strip() of a piece or a sentence: word tokens carry no outer blanks, *)
(* a separator loses its whitespace                                        *)
strip(str) == [k \in 1..Len(str) |-> IF str[k] = Sep THEN Dot ELSE str[k]]

(* the while loop that re-attaches each terminator, lines 640-649 *)
RECURSIVE full_sentences(_, _)
full_sentences(sentences, k) ==
    IF k > Len(sentences) THEN <<>>
    ELSE IF k + 1 <= Len(sentences) /\ sentences[k + 1] = <<Sep>>
         THEN << sentences[k] \o strip(sentences[k + 1]) >>
              \o full_sentences(sentences, k + 2)
         ELSE IF strip(sentences[k]) # <<>>
              THEN << sentences[k] >> \o full_sentences(sentences, k + 1)
              ELSE full_sentences(sentences, k + 1)

RECURSIVE InsertByStart(_, _)
InsertByStart(sorted, s) ==
    IF sorted = <<>> THEN <<s>>
    ELSE IF Head(sorted).start <= s.start
         THEN <<Head(sorted)>> \o InsertByStart(Tail(sorted), s)
         ELSE <<s>> \o sorted

RECURSIVE SortByStart(_)
SortByStart(segs) ==
    IF segs = <<>> THEN <<>>
    ELSE InsertByStart(SortByStart(SubSeq(segs, 1, Len(segs) - 1)),
                       segs[Len(segs)])

overlapping_segments(text_seg, speaker_segs) ==
    SelectSeq(speaker_segs,
              LAMBDA s : calculate_overlap(s.start, s.end,
                                           text_seg.start, text_seg.end) > 0)

(* the scan of lines 667-676 with >= for > : the last segment wins a tie  *)
RECURSIVE best_speaker_nonstrict(_, _, _, _, _)
best_speaker_nonstrict(overlapping, sentence_start, sentence_end, max_overlap, best) ==
    IF overlapping = <<>> THEN best
    ELSE LET s == Head(overlapping)
             overlap == calculate_overlap(s.start, s.end,
                                          sentence_start, sentence_end)
         IN  IF overlap >= max_overlap
             THEN best_speaker_nonstrict(Tail(overlapping), sentence_start,
                                         sentence_end, overlap, s.speaker)
             ELSE best_speaker_nonstrict(Tail(overlapping), sentence_start,
                                         sentence_end, max_overlap, best)

(* the scan of lines 667-676: the first segment, in start order, whose     *)
(* overlap is strictly larger than every earlier one; "" stands for None   *)
RECURSIVE best_speaker(_, _, _, _, _)
best_speaker(overlapping, sentence_start, sentence_end, max_overlap, best) ==
    IF overlapping = <<>> THEN best
    ELSE LET s == Head(overlapping)
             overlap == calculate_overlap(s.start, s.end,
                                          sentence_start, sentence_end)
         IN  IF overlap > max_overlap
             THEN best_speaker(Tail(overlapping), sentence_start,
                               sentence_end, overlap, s.speaker)
             ELSE best_speaker(Tail(overlapping), sentence_start,
                               sentence_end, max_overlap, best)

(* the for loop of lines 662-686; duration_per_sentence is exact for the   *)
(* text segments of TextPool                                               *)
RECURSIVE split_sentences(_, _, _, _)
split_sentences(sentences, overlapping, current_time, duration_per_sentence) ==
    IF sentences = <<>> THEN <<>>
    ELSE LET sentence_start == current_time
             sentence_end == current_time + duration_per_sentence
             best == best_speaker(overlapping, sentence_start, sentence_end,
                                  0, "")
             rest == split_sentences(Tail(sentences), overlapping,
                                     sentence_end, duration_per_sentence)
         IN  IF best # ""
             THEN << VTTSegment(sentence_start, sentence_end, best,
                                strip(Head(sentences))) >> \o rest
             ELSE rest

(* the splitter without the return of lines 650-651 for a single sentence *)
split_turboscribe_segment_by_speakers_unguarded(text_seg, speaker_segs) ==
    LET overlapping == SortByStart(overlapping_segments(text_seg,
                                                        speaker_segs))
        unique_speakers == { overlapping[k].speaker :
                               k \in 1..Len(overlapping) }
        sentences == full_sentences(re_split(text_seg.text), 1)
        total_duration == text_seg.end - text_seg.start
    IN  IF overlapping = <<>> THEN <<text_seg>>
        ELSE IF Cardinality(unique_speakers) <= 1 THEN <<text_seg>>
        ELSE IF Len(sentences) < 1 THEN <<text_seg>>
        ELSE LET result == split_sentences(sentences, overlapping,
                                           text_seg.start,
                                           total_duration \div Len(sentences))
             IN  IF result # <<>> THEN result ELSE <<text_seg>>

(* the splitter without the sort of line 629: the overlapping segments in *)
(* timeline order                                                          *)
split_turboscribe_segment_by_speakers_unsorted(text_seg, speaker_segs) ==
    LET overlapping == overlapping_segments(text_seg, speaker_segs)
        unique_speakers == { overlapping[k].speaker :
                               k \in 1..Len(overlapping) }
        sentences == full_sentences(re_split(text_seg.text), 1)
        total_duration == text_seg.end - text_seg.start
    IN  IF overlapping = <<>> THEN <<text_seg>>
        ELSE IF Cardinality(unique_speakers) <= 1 THEN <<text_seg>>
        ELSE IF Len(sentences) <= 1 THEN <<text_seg>>
        ELSE LET result == split_sentences(sentences, overlapping,
                                           text_seg.start,
                                           total_duration \div Len(sentences))
             IN  IF result # <<>> THEN result ELSE <<text_seg>>

split_turboscribe_segment_by_speakers(text_seg, speaker_segs) ==
    LET overlapping == SortByStart(overlapping_segments(text_seg,
                                                        speaker_segs))
        unique_speakers == { overlapping[k].speaker :
                               k \in 1..Len(overlapping) }
        sentences == full_sentences(re_split(text_seg.text), 1)
        total_duration == text_seg.end - text_seg.start
    IN  IF overlapping = <<>> THEN <<text_seg>>
        ELSE IF Cardinality(unique_speakers) <= 1 THEN <<text_seg>>
        ELSE IF Len(sentences) <= 1 THEN <<text_seg>>
        ELSE LET result == split_sentences(sentences, overlapping,
                                           text_seg.start,
                                           total_duration \div Len(sentences))
             IN  IF result # <<>> THEN result ELSE <<text_seg>>

(* lines 752-756: every text segment expanded, in order *)
RECURSIVE expand(_, _)
expand(texts, speaker_segs) ==
    IF texts = <<>> THEN <<>>
    ELSE split_turboscribe_segment_by_speakers(Head(texts), speaker_segs)
         \o expand(Tail(texts), speaker_segs)

(***************************************************************************)
(* smart_fallback                                                          *)
(***************************************************************************)
time_window == 10

(* the key of lines 382-385 (to the start of the text segment) and of     *)
(* lines 410-413 (the end of the speaker segment to its end)              *)
boundary_distance(s, text_seg, to_end) ==
    Min2(Abs(s.start - text_seg.start),
         Abs(s.end - (IF to_end THEN text_seg.end ELSE text_seg.start)))

(* min(seq, key): the first element with the smallest key *)
RECURSIVE FirstMin(_, _, _, _)
FirstMin(segs, text_seg, to_end, best) ==
    IF segs = <<>> THEN best
    ELSE IF boundary_distance(Head(segs), text_seg, to_end)
               < boundary_distance(best, text_seg, to_end)
         THEN FirstMin(Tail(segs), text_seg, to_end, Head(segs))
         ELSE FirstMin(Tail(segs), text_seg, to_end, best)

CountSpeaker(segs, speaker) ==
    Len(SelectSeq(segs, LAMBDA s : s.speaker = speaker))

(* smart_fallback with strategy 4 tried before strategy 3 *)
smart_fallback_global_first(text_seg, speakers, context_before) ==
    LET nearby_speakers ==
            SelectSeq(speakers,
                      LAMBDA s : Abs(s.start - text_seg.start) < time_window)
        recent_speaker == context_before[Len(context_before)].speaker
        recent_count == CountSpeaker(LastN(context_before, 5), recent_speaker)
        nearest == FirstMin(Tail(nearby_speakers), text_seg, FALSE,
                            Head(nearby_speakers))
        time_dist == boundary_distance(nearest, text_seg, FALSE)
        global_nearest == FirstMin(Tail(speakers), text_seg, TRUE,
                                   Head(speakers))
    IN  IF /\ Len(context_before) >= 3
           /\ recent_count >= 3
           /\ nearby_speakers # <<>>
           /\ \E k \in 1..Len(nearby_speakers) :
                 nearby_speakers[k].speaker = recent_speaker
        THEN [speaker |-> recent_speaker,
              confidence |-> R(65, 100),
              reasoning |-> "Active speaker"]
        ELSE IF nearby_speakers # <<>>
        THEN [speaker |-> nearest.speaker,
              confidence |->
                  RatMax(R(4, 10),
                         RatSub(R(7, 10),
                                RatMul(R(time_dist, time_window), R(3, 10)))),
              reasoning |-> "Nearest"]
        ELSE IF speakers # <<>>
        THEN [speaker |-> global_nearest.speaker,
              confidence |-> R(30, 100),
              reasoning |-> "Global nearest"]
        ELSE IF context_before # <<>>
        THEN [speaker |-> context_before[Len(context_before)].speaker,
              confidence |-> R(35, 100),
              reasoning |-> "Previous speaker"]
        ELSE [speaker |-> "Unknown",
              confidence |-> FromInt(0),
              reasoning |-> "No speakers"]

(* smart_fallback with the empty timeline of strategy 5 tested before the  *)
(* previous speaker of strategy 3                                          *)
smart_fallback_sentinel_first(text_seg, speakers, context_before) ==
    LET nearby_speakers ==
            SelectSeq(speakers,
                      LAMBDA s : Abs(s.start - text_seg.start) < time_window)
        recent_speaker == context_before[Len(context_before)].speaker
        recent_count == CountSpeaker(LastN(context_before, 5), recent_speaker)
        nearest == FirstMin(Tail(nearby_speakers), text_seg, FALSE,
                            Head(nearby_speakers))
        time_dist == boundary_distance(nearest, text_seg, FALSE)
        global_nearest == FirstMin(Tail(speakers), text_seg, TRUE,
                                   Head(speakers))
    IN  IF /\ Len(context_before) >= 3
           /\ recent_count >= 3
           /\ nearby_speakers # <<>>
           /\ \E k \in 1..Len(nearby_speakers) :
                 nearby_speakers[k].speaker = recent_speaker
        THEN [speaker |-> recent_speaker,
              confidence |-> R(65, 100),
              reasoning |-> "Active speaker"]
        ELSE IF nearby_speakers # <<>>
        THEN [speaker |-> nearest.speaker,
              confidence |->
                  RatMax(R(4, 10),
                         RatSub(R(7, 10),
                                RatMul(R(time_dist, time_window), R(3, 10)))),
              reasoning |-> "Nearest"]
        ELSE IF speakers = <<>>
        THEN [speaker |-> "Unknown",
              confidence |-> FromInt(0),
              reasoning |-> "No speakers"]
        ELSE IF context_before # <<>>
        THEN [speaker |-> context_before[Len(context_before)].speaker,
              confidence |-> R(35, 100),
              reasoning |-> "Previous speaker"]
        ELSE [speaker |-> global_nearest.speaker,
              confidence |-> R(30, 100),
              reasoning |-> "Global nearest"]

(* smart_fallback with strategy 3 tried before strategy 2 *)
smart_fallback_previous_first(text_seg, speakers, context_before) ==
    LET nearby_speakers ==
            SelectSeq(speakers,
                      LAMBDA s : Abs(s.start - text_seg.start) < time_window)
        recent_speaker == context_before[Len(context_before)].speaker
        recent_count == CountSpeaker(LastN(context_before, 5), recent_speaker)
        nearest == FirstMin(Tail(nearby_speakers), text_seg, FALSE,
                            Head(nearby_speakers))
        time_dist == boundary_distance(nearest, text_seg, FALSE)
        global_nearest == FirstMin(Tail(speakers), text_seg, TRUE,
                                   Head(speakers))
    IN  IF /\ Len(context_before) >= 3
           /\ recent_count >= 3
           /\ nearby_speakers # <<>>
           /\ \E k \in 1..Len(nearby_speakers) :
                 nearby_speakers[k].speaker = recent_speaker
        THEN [speaker |-> recent_speaker,
              confidence |-> R(65, 100),
              reasoning |-> "Active speaker"]
        ELSE IF context_before # <<>>
        THEN [speaker |-> context_before[Len(context_before)].speaker,
              confidence |-> R(35, 100),
              reasoning |-> "Previous speaker"]
        ELSE IF nearby_speakers # <<>>
        THEN [speaker |-> nearest.speaker,
              confidence |->
                  RatMax(R(4, 10),
                         RatSub(R(7, 10),
                                RatMul(R(time_dist, time_window), R(3, 10)))),
              reasoning |-> "Nearest"]
        ELSE IF speakers # <<>>
        THEN [speaker |-> global_nearest.speaker,
              confidence |-> R(30, 100),
              reasoning |-> "Global nearest"]
        ELSE [speaker |-> "Unknown",
              confidence |-> FromInt(0),
              reasoning |-> "No speakers"]

smart_fallback(text_seg, speakers, context_before) ==
    LET nearby_speakers ==
            SelectSeq(speakers,
                      LAMBDA s : Abs(s.start - text_seg.start) < time_window)
        recent_speaker == context_before[Len(context_before)].speaker
        recent_count == CountSpeaker(LastN(context_before, 5), recent_speaker)
        nearest == FirstMin(Tail(nearby_speakers), text_seg, FALSE,
                            Head(nearby_speakers))
        time_dist == boundary_distance(nearest, text_seg, FALSE)
        global_nearest == FirstMin(Tail(speakers), text_seg, TRUE,
                                   Head(speakers))
    IN  IF /\ Len(context_before) >= 3
           /\ recent_count >= 3
           /\ nearby_speakers # <<>>
           /\ \E k \in 1..Len(nearby_speakers) :
                 nearby_speakers[k].speaker = recent_speaker
        THEN [speaker |-> recent_speaker,
              confidence |-> R(65, 100),
              reasoning |-> "Active speaker"]
        ELSE IF nearby_speakers # <<>>
        THEN [speaker |-> nearest.speaker,
              confidence |->
                  RatMax(R(4, 10),
                         RatSub(R(7, 10),
                                RatMul(R(time_dist, time_window), R(3, 10)))),
              reasoning |-> "Nearest"]
        ELSE IF context_before # <<>>
        THEN [speaker |-> context_before[Len(context_before)].speaker,
              confidence |-> R(35, 100),
              reasoning |-> "Previous speaker"]
        ELSE IF speakers # <<>>
        THEN [speaker |-> global_nearest.speaker,
              confidence |-> R(30, 100),
              reasoning |-> "Global nearest"]
        ELSE [speaker |-> "Unknown",
              confidence |-> FromInt(0),
              reasoning |-> "No speakers"]

(***************************************************************************)
(* The oracle.  One behaviour of client.chat.completions.create and of     *)
(* json.loads on its content: the call raises, the content does not parse, *)
(* or the content is a JSON object with the keys in "keys".                *)
(***************************************************************************)
AllKeys == {"speaker", "confidence", "reasoning"}

Answer(keys, speaker, confidence, reasoning) ==
    [kind |-> "json", keys |-> keys, speaker |-> speaker,
     confidence |-> confidence, reasoning |-> reasoning]

OracleResponses ==
    { [kind |-> "raise"],
      [kind |-> "garbage"],
      Answer(AllKeys, "Bob", R(9, 10), "context"),
      Answer(AllKeys, "Mallory", R(9, 10), "context"),
      Answer(AllKeys, "Alice", R(3, 2), "context"),
      Answer(AllKeys, "Bob", R(9, 10), ""),
      Answer(AllKeys \ {"speaker"}, "", R(9, 10), "context"),
      Answer(AllKeys \ {"confidence"}, "Alice", FromInt(0), "context"),
      Answer(AllKeys \ {"reasoning"}, "Bob", R(9, 10), "") }

(* the oracle is not consulted *)
NoResponse == [kind |-> "none"]

(***************************************************************************)
(* ask_llm_for_speaker: the returned dict, as a record with its key set,   *)
(* and the increments of llm_stats                                         *)
(***************************************************************************)
Dict(speaker, confidence, reasoning) ==
    [keys |-> AllKeys, speaker |-> speaker, confidence |-> confidence,
     reasoning |-> reasoning]

(* ask_llm_for_speaker without the validation of lines 539-549 *)
ask_llm_for_speaker_unvalidated(cands, has_client, response) ==
    IF ~has_client
    THEN [result |-> Dict(cands[1].speaker, cands[1].overlap_ratio,
                          "LLM not available, using top time-overlap candidate"),
          actual_calls |-> 0, fallbacks |-> 1]
    ELSE IF response.kind = "raise"
    THEN [result |-> Dict(cands[1].speaker,
                          RatMul(cands[1].overlap_ratio, R(8, 10)),
                          "LLM error, fallback to top candidate"),
          actual_calls |-> 0, fallbacks |-> 0]
    ELSE IF response.kind = "garbage" \/ "speaker" \notin response.keys
    THEN [result |-> Dict(cands[1].speaker,
                          RatMul(cands[1].overlap_ratio, R(8, 10)),
                          "LLM error, fallback to top candidate"),
          actual_calls |-> 1, fallbacks |-> 0]
    ELSE [result |-> [keys |-> response.keys,
                      speaker |-> response.speaker,
                      confidence |-> response.confidence,
                      reasoning |-> response.reasoning],
          actual_calls |-> 1, fallbacks |-> 0]

(* ask_llm_for_speaker with actual_calls counted before the call of line  *)
(* 515 instead of after it                                                 *)
ask_llm_for_speaker_counting_early(cands, has_client, response) ==
    LET valid_speakers == { cands[k].speaker : k \in 1..Len(cands) }
    IN  IF ~has_client
        THEN [result |-> Dict(cands[1].speaker,
                              cands[1].overlap_ratio,
                              "LLM not available, using top time-overlap candidate"),
              actual_calls |-> 0, fallbacks |-> 1]
        ELSE IF response.kind = "raise"
        THEN [result |-> Dict(cands[1].speaker,
                              RatMul(cands[1].overlap_ratio, R(8, 10)),
                              "LLM error, fallback to top candidate"),
              actual_calls |-> 1, fallbacks |-> 0]
        ELSE IF response.kind = "garbage" \/ "speaker" \notin response.keys
        THEN [result |-> Dict(cands[1].speaker,
                              RatMul(cands[1].overlap_ratio, R(8, 10)),
                              "LLM error, fallback to top candidate"),
              actual_calls |-> 1, fallbacks |-> 0]
        ELSE IF response.speaker \notin valid_speakers
        THEN [result |-> Dict(cands[1].speaker, R(7, 10),
                              "LLM returned invalid speaker, using top candidate"),
              actual_calls |-> 1, fallbacks |-> 0]
        ELSE [result |-> [keys |-> response.keys,
                          speaker |-> response.speaker,
                          confidence |-> response.confidence,
                          reasoning |-> response.reasoning],
              actual_calls |-> 1, fallbacks |-> 0]

(* ask_llm_for_speaker with the error fallback at the plain overlap ratio,  *)
(* without the factor 0.8 of line 560                                      *)
ask_llm_for_speaker_error_unscaled(cands, has_client, response) ==
    LET valid_speakers == { cands[k].speaker : k \in 1..Len(cands) }
    IN  IF ~has_client
        THEN [result |-> Dict(cands[1].speaker,
                              cands[1].overlap_ratio,
                              "LLM not available, using top time-overlap candidate"),
              actual_calls |-> 0, fallbacks |-> 1]
        ELSE IF response.kind = "raise"
        THEN [result |-> Dict(cands[1].speaker,
                              cands[1].overlap_ratio,
                              "LLM error, fallback to top candidate"),
              actual_calls |-> 0, fallbacks |-> 0]
        ELSE IF response.kind = "garbage" \/ "speaker" \notin response.keys
        THEN [result |-> Dict(cands[1].speaker,
                              cands[1].overlap_ratio,
                              "LLM error, fallback to top candidate"),
              actual_calls |-> 1, fallbacks |-> 0]
        ELSE IF response.speaker \notin valid_speakers
        THEN [result |-> Dict(cands[1].speaker, R(7, 10),
                              "LLM returned invalid speaker, using top candidate"),
              actual_calls |-> 1, fallbacks |-> 0]
        ELSE [result |-> [keys |-> response.keys,
                          speaker |-> response.speaker,
                          confidence |-> response.confidence,
                          reasoning |-> response.reasoning],
              actual_calls |-> 1, fallbacks |-> 0]

ask_llm_for_speaker(cands, has_client, response) ==
    LET valid_speakers == { cands[k].speaker : k \in 1..Len(cands) }
    IN  IF ~has_client
        THEN [result |-> Dict(cands[1].speaker,
                              cands[1].overlap_ratio,
                              "LLM not available, using top time-overlap candidate"),
              actual_calls |-> 0, fallbacks |-> 1]
        ELSE IF response.kind = "raise"
        THEN [result |-> Dict(cands[1].speaker,
                              RatMul(cands[1].overlap_ratio, R(8, 10)),
                              "LLM error, fallback to top candidate"),
              actual_calls |-> 0, fallbacks |-> 0]
        ELSE IF response.kind = "garbage" \/ "speaker" \notin response.keys
        THEN [result |-> Dict(cands[1].speaker,
                              RatMul(cands[1].overlap_ratio, R(8, 10)),
                              "LLM error, fallback to top candidate"),
              actual_calls |-> 1, fallbacks |-> 0]
        ELSE IF response.speaker \notin valid_speakers
        THEN [result |-> Dict(cands[1].speaker, R(7, 10),
                              "LLM returned invalid speaker, using top candidate"),
              actual_calls |-> 1, fallbacks |-> 0]
        ELSE [result |-> [keys |-> response.keys,
                          speaker |-> response.speaker,
                          confidence |-> response.confidence,
                          reasoning |-> response.reasoning],
              actual_calls |-> 1, fallbacks |-> 0]

(***************************************************************************)
(* align_with_llm: the body of the loop over expanded_text_vtt             *)
(***************************************************************************)
AlignedSegment(seg, speaker, confidence, match_type, reasoning, cands) ==
    [start |-> seg.start, end |-> seg.end, speaker |-> speaker,
     text |-> seg.text, confidence |-> confidence, match_type |-> match_type,
     reasoning |-> reasoning, candidates |-> cands]

(* the two passes of lines 781-787 *)
strict_raises(seg) == find_speaker_candidates_raises(seg, speaker_vtt, 0)

strict_candidates(seg) == find_speaker_candidates(seg, speaker_vtt, 0)

resolve_raises(seg) ==
    \/ strict_raises(seg)
    \/ /\ strict_candidates(seg) = <<>>
       /\ find_speaker_candidates_raises(seg, speaker_vtt, 3)

(* the tolerant call made for every segment, whatever the strict one found *)
resolve_always_tolerant(seg) == find_speaker_candidates(seg, speaker_vtt, 3)

resolve(seg) ==
    LET strict == strict_candidates(seg)
    IN  IF strict # <<>> THEN strict
        ELSE find_speaker_candidates(seg, speaker_vtt, 3)

(* list(set(s.speaker for s in aligned[-10:])): the iteration order of a   *)
(* set of strings is any order                                             *)
recent_speaker_set(al) == { LastN(al, 10)[k].speaker : k \in 1..Len(LastN(al, 10)) }

Orders(S) ==
    { f \in [1..Cardinality(S) -> S] :
        \A a, b \in 1..Cardinality(S) : a # b => f[a] # f[b] }

pseudo_candidates(recent_speakers) ==
    [k \in 1..Len(recent_speakers) |->
        [speaker |-> recent_speakers[k],
         overlap_ratio |-> FromInt(0),
         confidence_multiplier |-> FromInt(1)]]

(* the conditions of lines 849 and 865 with the threshold of line 865 at   *)
(* 0.5 instead of 0.15                                                     *)
candidate_row_half(cands) ==
    IF Len(cands) = 1 /\ RatLT(R(8, 10), cands[1].overlap_ratio)
    THEN "single_speaker"
    ELSE IF Len(cands) > 1 /\ RatLT(R(5, 10), cands[2].overlap_ratio)
    THEN "ambiguous"
    ELSE "dominant"

(* lines 849, 865 and 892: the row of a segment that has candidates *)
candidate_row(cands) ==
    IF Len(cands) = 1 /\ RatLT(R(8, 10), cands[1].overlap_ratio)
    THEN "single_speaker"
    ELSE IF Len(cands) > 1 /\ RatLT(R(15, 100), cands[2].overlap_ratio)
    THEN "ambiguous"
    ELSE "dominant"

(* lines 781-849 and 865: the candidates of a segment, the smart fallback  *)
(* result when there are none, and the row of the decision table it takes  *)
classify(run) ==
    LET seg == expanded_text_vtt[run.i + 1]
        cands == resolve(seg)
        fallback == smart_fallback(seg, speaker_vtt, LastN(run.aligned, 10))
    IN  IF seg.speaker # ""
        THEN [run EXCEPT !.pc = "pre_assigned"]
        ELSE IF resolve_raises(seg)
        THEN [run EXCEPT !.pc = "raised"]
        ELSE IF cands = <<>>
        THEN [run EXCEPT
                !.candidates = cands,
                !.used_tolerance = TRUE,
                !.fallback_result = <<fallback>>,
                !.pc = IF /\ client
                          /\ Len(run.aligned) >= 5
                          /\ RatLT(fallback.confidence, R(6, 10))
                       THEN "fallback_llm"
                       ELSE "smart_fallback"]
        ELSE [run EXCEPT
                !.candidates = cands,
                !.used_tolerance = (strict_candidates(seg) = <<>>),
                !.pc = candidate_row(cands)]

(* context_after sliced from the index of the segment itself *)
context_after_from_current(idx) ==
    IF idx + 1 < Len(text_vtt) THEN Slice(text_vtt, idx, idx + 2) ELSE <<>>

(* context_after of lines 812 and 874: a slice of the raw text timeline by *)
(* the index into the expanded one                                         *)
context_after(idx) ==
    IF idx + 1 < Len(text_vtt) THEN Slice(text_vtt, idx + 1, idx + 3) ELSE <<>>

Bump(counters, key) == [counters EXCEPT ![key] = @ + 1]

(* one call of the adapter from the loop body and what the body does with  *)
(* its result: a missing key of the result raises KeyError                 *)
llm_branch(run, cands, response, penalty, prefix) ==
    LET seg == expanded_text_vtt[run.i + 1]
        call == ask_llm_for_speaker(cands, client, response)
        llm_result == call.result
        counted == [attempts |-> run.llm_stats.attempts + 1,
                    actual_calls |-> run.llm_stats.actual_calls
                                     + call.actual_calls,
                    fallbacks |-> run.llm_stats.fallbacks + call.fallbacks]
        record == << [index |-> run.i,
                      candidates |-> cands,
                      context_before |-> LastN(run.aligned, 5),
                      context_after |-> context_after(run.i),
                      response |-> IF client THEN response ELSE NoResponse,
                      result |-> llm_result] >>
    IN  IF llm_result.keys # AllKeys
        THEN [run EXCEPT !.llm_stats = counted, !.pc = "raised",
                         !.last_call = record]
        ELSE [run EXCEPT
                !.aligned = Append(@,
                    AlignedSegment(seg, llm_result.speaker,
                                   RatMul(llm_result.confidence, penalty),
                                   "llm_resolved",
                                   prefix \o llm_result.reasoning,
                                   cands)),
                !.stats = Bump(@, "llm_resolved"),
                !.llm_stats = counted,
                !.last_call = record,
                !.i = @ + 1,
                !.pc = "loop"]

(* emit with the segment put in front of the list *)
emit_at_front(run, segment, counter) ==
    [run EXCEPT !.aligned = <<segment>> \o @,
                !.stats = Bump(@, counter),
                !.i = @ + 1,
                !.pc = "loop"]

emit(run, segment, counter) ==
    [run EXCEPT !.aligned = Append(@, segment),
                !.stats = Bump(@, counter),
                !.i = @ + 1,
                !.pc = "loop"]

(* lines 766-778 *)
pre_assigned(run) ==
    LET seg == expanded_text_vtt[run.i + 1]
    IN  emit(run, AlignedSegment(seg, seg.speaker, R(95, 100),
                                 "high_confidence",
                                 "Pre-assigned speaker from split", <<>>),
             "high_confidence")

(* lines 830-842 *)
use_smart_fallback(run) ==
    LET seg == expanded_text_vtt[run.i + 1]
        fallback == run.fallback_result[1]
    IN  emit(run, AlignedSegment(seg, fallback.speaker,
                                 fallback.confidence, "fallback",
                                 fallback.reasoning, <<>>),
             "fallback")

(* lines 795-828 *)
fallback_llm(run, response, order) ==
    llm_branch(run, pseudo_candidates(FirstN(order, 5)), response,
               R(85, 100), "Fallback+LLM: ")

(* single_speaker without the bonus factor 1.1 of line 851 *)
single_speaker_no_bonus(run) ==
    LET seg == expanded_text_vtt[run.i + 1]
        top_candidate == run.candidates[1]
        confidence_mult == top_candidate.confidence_multiplier
        base_overlap == top_candidate.overlap_ratio
        final_conf == RatMin(R(99, 100), RatMul(base_overlap, confidence_mult))
    IN  emit(run, AlignedSegment(seg, top_candidate.speaker, final_conf,
                                 "high_confidence",
                                 "Single speaker"
                                   \o (IF run.used_tolerance
                                       THEN " (tolerance)" ELSE ""),
                                 run.candidates),
             "high_confidence")

(* lines 849-863 *)
single_speaker(run) ==
    LET seg == expanded_text_vtt[run.i + 1]
        top_candidate == run.candidates[1]
        confidence_mult == top_candidate.confidence_multiplier
        base_overlap == top_candidate.overlap_ratio
        final_conf == RatMin(R(99, 100),
                             RatMul(RatMul(base_overlap, confidence_mult),
                                    R(11, 10)))
    IN  emit(run, AlignedSegment(seg, top_candidate.speaker, final_conf,
                                 "high_confidence",
                                 "Single speaker"
                                   \o (IF run.used_tolerance
                                       THEN " (tolerance)" ELSE ""),
                                 run.candidates),
             "high_confidence")

(* lines 865-890 *)
ambiguous(run, response) ==
    llm_branch(run, run.candidates, response, FromInt(1), "")

(* lines 892-906 *)
dominant(run) ==
    LET seg == expanded_text_vtt[run.i + 1]
        top_candidate == run.candidates[1]
        confidence_mult == top_candidate.confidence_multiplier
        base_overlap == top_candidate.overlap_ratio
        final_conf == RatMul(base_overlap, confidence_mult)
    IN  emit(run, AlignedSegment(seg, top_candidate.speaker, final_conf,
                                 "high_confidence",
                                 "Dominant speaker"
                                   \o (IF run.used_tolerance
                                       THEN " (tolerance)" ELSE ""),
                                 run.candidates),
             "high_confidence")

(***************************************************************************)
(* The state machine of one run of align_with_llm.  pc is the position in  *)
(* the function: "split" before the expansion, "loop" at the head of the   *)
(* loop, the name of a row inside the body, "done" after the return and    *)
(* "raised" when an exception left the function.                           *)
(***************************************************************************)
NewRun ==
    [aligned |-> <<>>,
     stats |-> [high_confidence |-> 0, llm_resolved |-> 0, fallback |-> 0],
     llm_stats |-> [attempts |-> 0, actual_calls |-> 0, fallbacks |-> 0],
     i |-> 0,
     pc |-> "split",
     candidates |-> <<>>,
     used_tolerance |-> FALSE,
     fallback_result |-> <<>>,
     last_call |-> <<>>]

Run ==
    [aligned |-> aligned, stats |-> stats, llm_stats |-> llm_stats,
     i |-> i, pc |-> pc, candidates |-> candidates,
     used_tolerance |-> used_tolerance, fallback_result |-> fallback_result,
     last_call |-> last_call]

SetRun(run) ==
    /\ aligned' = run.aligned
    /\ stats' = run.stats
    /\ llm_stats' = run.llm_stats
    /\ i' = run.i
    /\ pc' = run.pc
    /\ candidates' = run.candidates
    /\ used_tolerance' = run.used_tolerance
    /\ fallback_result' = run.fallback_result
    /\ last_call' = run.last_call

inputs == <<speaker_vtt, text_vtt, client>>

Init ==
    /\ speaker_vtt \in Timelines(SpeakerPool, MaxSpk)
    /\ text_vtt \in Timelines(TextPool, MaxText)
    /\ client \in BOOLEAN
    /\ expanded_text_vtt = <<>>
    /\ aligned = NewRun.aligned
    /\ stats = NewRun.stats
    /\ llm_stats = NewRun.llm_stats
    /\ i = NewRun.i
    /\ pc = NewRun.pc
    /\ candidates = NewRun.candidates
    /\ used_tolerance = NewRun.used_tolerance
    /\ fallback_result = NewRun.fallback_result
    /\ last_call = NewRun.last_call
    /\ twin = NewRun

(* the behaviours of the oracle a call can meet *)
Responses == IF client THEN OracleResponses ELSE {NoResponse}

(* lines 752-756 *)
Expand ==
    /\ pc = "split"
    /\ expanded_text_vtt' = expand(text_vtt, speaker_vtt)
    /\ pc' = "loop"
    /\ UNCHANGED <<inputs, aligned, stats, llm_stats, i, candidates,
                   used_tolerance, fallback_result, last_call, twin>>

(* the head of the loop body, up to the choice of the row *)
Classify ==
    /\ pc = "loop"
    /\ i < Len(expanded_text_vtt)
    /\ SetRun(classify(Run))
    /\ UNCHANGED <<inputs, expanded_text_vtt, twin>>

PreAssigned ==
    /\ pc = "pre_assigned"
    /\ SetRun(pre_assigned(Run))
    /\ UNCHANGED <<inputs, expanded_text_vtt, twin>>

SmartFallback ==
    /\ pc = "smart_fallback"
    /\ SetRun(use_smart_fallback(Run))
    /\ UNCHANGED <<inputs, expanded_text_vtt, twin>>

FallbackLLM ==
    /\ pc = "fallback_llm"
    /\ \E response \in Responses :
          \E order \in Orders(recent_speaker_set(aligned)) :
             SetRun(fallback_llm(Run, response, order))
    /\ UNCHANGED <<inputs, expanded_text_vtt, twin>>

SingleSpeaker ==
    /\ pc = "single_speaker"
    /\ SetRun(single_speaker(Run))
    /\ UNCHANGED <<inputs, expanded_text_vtt, twin>>

Ambiguous ==
    /\ pc = "ambiguous"
    /\ \E response \in Responses : SetRun(ambiguous(Run, response))
    /\ UNCHANGED <<inputs, expanded_text_vtt, twin>>

Dominant ==
    /\ pc = "dominant"
    /\ SetRun(dominant(Run))
    /\ UNCHANGED <<inputs, expanded_text_vtt, twin>>

(* lines 908-925: the loop is over, the list is returned *)
Return ==
    /\ pc = "loop"
    /\ i = Len(expanded_text_vtt)
    /\ pc' = "done"
    /\ UNCHANGED <<inputs, expanded_text_vtt, aligned, stats, llm_stats, i,
                   candidates, used_tolerance, fallback_result, last_call,
                   twin>>

Next ==
    \/ Expand
    \/ Classify
    \/ PreAssigned
    \/ SmartFallback
    \/ FallbackLLM
    \/ SingleSpeaker
    \/ Ambiguous
    \/ Dominant
    \/ Return

Spec == Init /\ [][Next]_vars

(***************************************************************************)
(* Two runs of align_with_llm on the same timelines against the same       *)
(* response table: the oracle behaves the same way for a segment in both   *)
(* runs, and each run meets its own iteration order of the set of recent   *)
(* speakers.  The second run is the record twin.                           *)
(***************************************************************************)
Rows == {"pre_assigned", "smart_fallback", "fallback_llm", "single_speaker",
         "ambiguous", "dominant"}

Active(run) ==
    \/ run.pc \in Rows
    \/ run.pc = "loop" /\ run.i < Len(expanded_text_vtt)

step(run, response, order) ==
    CASE run.pc = "loop" -> classify(run)
      [] run.pc = "pre_assigned" -> pre_assigned(run)
      [] run.pc = "smart_fallback" -> use_smart_fallback(run)
      [] run.pc = "fallback_llm" -> fallback_llm(run, response, order)
      [] run.pc = "single_speaker" -> single_speaker(run)
      [] run.pc = "ambiguous" -> ambiguous(run, response)
      [] run.pc = "dominant" -> dominant(run)

SetOrders(run) ==
    IF run.pc = "fallback_llm" THEN Orders(recent_speaker_set(run.aligned))
    ELSE {<<>>}

ExpandBoth ==
    /\ pc = "split"
    /\ expanded_text_vtt' = expand(text_vtt, speaker_vtt)
    /\ pc' = "loop"
    /\ twin' = [twin EXCEPT !.pc = "loop"]
    /\ UNCHANGED <<inputs, aligned, stats, llm_stats, i, candidates,
                   used_tolerance, fallback_result, last_call>>

StepBoth ==
    /\ ~(~Active(Run) /\ ~Active(twin))
    /\ \E response \in
            (IF {pc, twin.pc} \cap {"fallback_llm", "ambiguous"} # {}
             THEN Responses ELSE {NoResponse}) :
          /\ \E order \in SetOrders(Run) :
                SetRun(IF Active(Run) THEN step(Run, response, order)
                       ELSE Run)
          /\ \E order \in SetOrders(twin) :
                twin' = IF Active(twin) THEN step(twin, response, order)
                        ELSE twin
    /\ UNCHANGED <<inputs, expanded_text_vtt>>

ReturnBoth ==
    /\ ~Active(Run) /\ ~Active(twin)
    /\ "loop" \in {pc, twin.pc}
    /\ pc' = IF pc = "loop" THEN "done" ELSE pc
    /\ twin' = IF twin.pc = "loop" THEN [twin EXCEPT !.pc = "done"] ELSE twin
    /\ UNCHANGED <<inputs, expanded_text_vtt, aligned, stats, llm_stats, i,
                   candidates, used_tolerance, fallback_result, last_call>>

NextTwin == ExpandBoth \/ StepBoth \/ ReturnBoth

SpecTwin == Init /\ [][NextTwin]_vars

(***************************************************************************)
(* Properties of the output of align_with_llm.                             *)
(***************************************************************************)
Zero == <<0, 1>>

One == <<1, 1>>

CandidateSpeakers(cands) == { cands[k].speaker : k \in 1..Len(cands) }

(* C1: every AlignedSegment of the output has a confidence in the closed   *)
(* range [0, 1], whatever the timelines and whatever the oracle does.      *)
C1_ConfidenceInUnitRange ==
    \A k \in 1..Len(aligned) :
        /\ RatLE(Zero, aligned[k].confidence)
        /\ RatLE(aligned[k].confidence, One)

(* the step of an oracle row that returns to the head of the loop with    *)
(* one more segment, the one of the segment under decision                 *)
OracleRowAppendsOne ==
    pc \in {"ambiguous", "fallback_llm"}
       => /\ pc' = "loop"
          /\ Len(aligned') = Len(aligned) + 1
          /\ SubSeq(aligned', 1, Len(aligned)) = aligned
          /\ aligned'[Len(aligned')].text = expanded_text_vtt[i + 1].text

(* C2: whatever the oracle does on a call, align_with_llm does not raise   *)
(* and appends exactly one AlignedSegment for the segment under decision.  *)
C2_OracleCallAppendsOne == [][OracleRowAppendsOne]_vars

(* C3: the speaker of every llm_resolved segment is one of the candidates  *)
(* handed to the oracle for it; an answer naming a speaker outside the     *)
(* candidates is discarded, and the adapter returns the top candidate at   *)
(* confidence 0.7, which is the speaker of the emitted segment.            *)
C3_LlmSpeakerAmongCandidates ==
    /\ \A k \in 1..Len(aligned) :
          aligned[k].match_type = "llm_resolved"
             => aligned[k].speaker \in CandidateSpeakers(aligned[k].candidates)
    /\ \A c \in 1..Len(last_call) :
          LET call == last_call[c]
          IN  ( /\ call.response.kind = "json"
                /\ "speaker" \in call.response.keys
                /\ call.response.speaker
                      \notin CandidateSpeakers(call.candidates) )
              => /\ call.result.speaker = call.candidates[1].speaker
                 /\ call.result.confidence = <<7, 10>>
                 /\ Len(aligned) > call.index
                 /\ aligned[call.index + 1].speaker
                       = call.candidates[1].speaker
                 /\ aligned[call.index + 1].candidates = call.candidates

(* C3 witness: the oracle named Mallory, who is no candidate, and the      *)
(* segment was emitted as llm_resolved.                                    *)
C3_Witness ==
    /\ last_call # <<>>
    /\ last_call[1].response.kind = "json"
    /\ "speaker" \in last_call[1].response.keys
    /\ last_call[1].response.speaker
          \notin CandidateSpeakers(last_call[1].candidates)
    /\ Len(aligned) > last_call[1].index
    /\ aligned[last_call[1].index + 1].match_type = "llm_resolved"

(* C4: every AlignedSegment of the output, on every branch and for every   *)
(* oracle answer, has a non-empty reasoning string.                        *)
C4_ReasoningNonEmpty ==
    \A k \in 1..Len(aligned) : aligned[k].reasoning # ""

(* C5: two runs on the same timelines with the oracle stubbed to a fixed   *)
(* response table return identical AlignedSegment sequences.               *)
C5_TwoRunsIdentical ==
    (pc = "done" /\ twin.pc = "done") => aligned = twin.aligned

(***************************************************************************)
(* The last decision.  The loop appends one AlignedSegment per iteration,  *)
(* so aligned[k] is the decision for expanded_text_vtt[k].  A property of  *)
(* a decision is stated below for the newest one at the head of the loop,  *)
(* where every row leaves it; it holds for all of them because it held     *)
(* when each was the newest.                                               *)
(***************************************************************************)
Decided == Len(aligned) > 0 /\ Len(aligned) <= Len(expanded_text_vtt)

LastSeg == expanded_text_vtt[Len(aligned)]

LastAligned == aligned[Len(aligned)]

(* the segment went through the candidate resolver, which did not raise *)
Resolved(seg) == seg.speaker = "" /\ ~resolve_raises(seg)

(* at least two candidates, the second-ranked with a ratio above 0.15 *)
SecondAbove15(seg) ==
    /\ Resolved(seg)
    /\ Len(resolve(seg)) >= 2
    /\ resolve(seg)[2].overlap_ratio[1] * 100
          > 15 * resolve(seg)[2].overlap_ratio[2]

ScenarioB ==
    /\ speaker_vtt = << VTTSegment(10, 15, "Alice", <<>>),
                        VTTSegment(15, 20, "Bob", <<>>) >>
    /\ text_vtt = << VTTSegment(10, 20, "", <<"single">>) >>
    /\ ~client

(* the step that decides a segment with two candidates above the          *)
(* threshold: it is the oracle row, and it appends an llm_resolved segment *)
AmbiguousEmitsLlmResolved ==
    (pc \in Rows /\ SecondAbove15(expanded_text_vtt[i + 1]))
       => LET seg == expanded_text_vtt[i + 1]
          IN  /\ pc = "ambiguous"
              /\ llm_stats'.attempts = llm_stats.attempts + 1
              /\ Len(aligned') = Len(aligned) + 1
              /\ aligned'[Len(aligned')].match_type = "llm_resolved"
              /\ aligned'[Len(aligned')].candidates = resolve(seg)
              /\ ~client =>
                    /\ aligned'[Len(aligned')].speaker
                          = resolve(seg)[1].speaker
                    /\ aligned'[Len(aligned')].confidence
                          = resolve(seg)[1].overlap_ratio
              /\ ScenarioB =>
                    /\ aligned'[1].speaker = "Alice"
                    /\ aligned'[1].confidence = <<1, 2>>

(* C6: a segment that is not pre-assigned and has at least two candidates, *)
(* the second-ranked with ratio > 0.15, takes the oracle row and is        *)
(* emitted as llm_resolved with the candidates it was resolved to; without *)
(* a client the speaker is the top candidate and the confidence its ratio. *)
(* Scenario B gives Alice, llm_resolved, 0.5.                              *)
C6_AmbiguousGoesToOracle == [][AmbiguousEmitsLlmResolved]_vars

(***************************************************************************)
(* The splitter, restated from the timelines alone.                        *)
(***************************************************************************)
Sentences(t) == full_sentences(re_split(t.text), 1)

OverlappingSpeakers(t) ==
    { speaker_vtt[k].speaker :
        k \in { n \in 1..Len(speaker_vtt) :
                  calculate_overlap(speaker_vtt[n].start, speaker_vtt[n].end,
                                    t.start, t.end) > 0 } }

SplitApplies(t) ==
    Cardinality(OverlappingSpeakers(t)) >= 2 /\ Len(Sentences(t)) >= 2

(* the speakers with a segment that overlaps t and the interval [from, to] *)
SpeakersOver(t, from, to) ==
    { speaker_vtt[m].speaker :
        m \in { n \in 1..Len(speaker_vtt) :
                  /\ calculate_overlap(speaker_vtt[n].start,
                                       speaker_vtt[n].end, t.start, t.end) > 0
                  /\ calculate_overlap(speaker_vtt[n].start,
                                       speaker_vtt[n].end, from, to) > 0 } }

SentenceWidth(t) == (t.end - t.start) \div Len(Sentences(t))

(* the sentences of t whose equal-width sub-interval meets a speaker *)
RetainedSentences(t) ==
    { k \in 1..Len(Sentences(t)) :
        SpeakersOver(t, t.start + (k - 1) * SentenceWidth(t),
                     t.start + k * SentenceWidth(t)) # {} }

(* the number of segments emitted for t *)
NParts(t) ==
    IF SplitApplies(t) /\ RetainedSentences(t) # {}
    THEN Cardinality(RetainedSentences(t))
    ELSE 1

(* the number of segments emitted for the text segments before the j-th *)
RECURSIVE Offset(_)
Offset(j) ==
    IF j = 1 THEN 0 ELSE Offset(j - 1) + NParts(text_vtt[j - 1])

EmittedFor(j) == SubSeq(aligned, Offset(j) + 1, Offset(j + 1))

(* the number of expanded segments among the first n that carry no speaker *)
Unassigned(n) ==
    Cardinality({ k \in 1..n : expanded_text_vtt[k].speaker = "" })

ScenarioA ==
    /\ speaker_vtt = << VTTSegment(0, 5, "Alice", <<>>),
                        VTTSegment(5, 10, "Bob", <<>>) >>
    /\ text_vtt = << VTTSegment(0, 10, "",
                                <<"hello world", Sep, "how are you.">>) >>

(* C7: for a text segment that overlaps speaker segments of two or more    *)
(* speakers and has two or more sentences, the returned list holds one     *)
(* segment per retained sentence, of the sentence's width, with a speaker  *)
(* that overlaps the sentence, high_confidence and 0.95; every segment     *)
(* that left the splitter with a speaker is emitted with that speaker,     *)
(* high_confidence, 0.95 and no candidates, and the oracle is consulted    *)
(* only for segments that carry no speaker.  Scenario A gives [0,5] Alice  *)
(* and [5,10] Bob.                                                         *)
C7_SplitSegmentsPreAssigned ==
    /\ pc = "done" =>
          /\ Len(aligned) = Offset(Len(text_vtt) + 1)
          /\ \A j \in 1..Len(text_vtt) :
                SplitApplies(text_vtt[j]) =>
                   LET t == text_vtt[j]
                       parts == EmittedFor(j)
                   IN  /\ RetainedSentences(t) # {}
                       /\ Len(parts) = Cardinality(RetainedSentences(t))
                       /\ \A k \in 1..Len(parts) :
                             /\ parts[k].match_type = "high_confidence"
                             /\ parts[k].confidence = <<19, 20>>
                             /\ parts[k].end - parts[k].start
                                   = SentenceWidth(t)
                             /\ parts[k].speaker
                                   \in SpeakersOver(t, parts[k].start,
                                                    parts[k].end)
    /\ (pc = "loop" /\ Decided /\ LastSeg.speaker # "")
          => /\ LastAligned.speaker = LastSeg.speaker
             /\ LastAligned.match_type = "high_confidence"
             /\ LastAligned.confidence = <<19, 20>>
             /\ LastAligned.candidates = <<>>
    /\ \A c \in 1..Len(last_call) :
          expanded_text_vtt[last_call[c].index + 1].speaker = ""
    /\ llm_stats.attempts
          <= Unassigned(Min2(Len(aligned) + 1, Len(expanded_text_vtt)))
    /\ (ScenarioA /\ pc = "done")
          => /\ Len(aligned) = 2
             /\ aligned[1].start = 0 /\ aligned[1].end = 5
             /\ aligned[1].speaker = "Alice"
             /\ aligned[2].start = 5 /\ aligned[2].end = 10
             /\ aligned[2].speaker = "Bob"
             /\ llm_stats.attempts = 0

(* C7 witness: Scenario A has run to its end and gave two segments. *)
C7_Witness ==
    /\ ScenarioA
    /\ pc = "done"
    /\ Len(aligned) = 2
    /\ aligned[2].reasoning = "Pre-assigned speaker from split"

(***************************************************************************)
(* Smart fallback far from every speaker segment.                          *)
(***************************************************************************)
NoSpeakerInWindow(seg) ==
    \A k \in 1..Len(speaker_vtt) :
       Abs(speaker_vtt[k].start - seg.start) >= 10

(* no candidates after the tolerant pass, no speaker segment within the    *)
(* window, and fewer than 5 aligned segments before it                     *)
FarWithShortHistory ==
    /\ pc = "loop"
    /\ Decided
    /\ Resolved(LastSeg)
    /\ resolve(LastSeg) = <<>>
    /\ NoSpeakerInWindow(LastSeg)
    /\ Len(aligned) - 1 < 5

(* C8 as stated: such a segment gets strategy 4 or 5 and a confidence of   *)
(* at most 0.30.                                                           *)
C8_FarSegmentGlobalOrNone ==
    FarWithShortHistory
       => /\ LastAligned.reasoning \in {"Global nearest", "No speakers"}
          /\ LastAligned.confidence[1] * 100 <= 30 * LastAligned.confidence[2]

(* C8 amended: such a segment is emitted as fallback; when no aligned      *)
(* segment precedes it, by strategy 4 or 5 with confidence at most 0.30,   *)
(* and when 1 to 4 precede it, by strategy 3 with the speaker of the       *)
(* previous aligned segment at confidence 0.35.                            *)
C8_FarSegmentPreviousGlobalOrNone ==
    FarWithShortHistory
       => /\ LastAligned.match_type = "fallback"
          /\ IF Len(aligned) = 1
             THEN /\ LastAligned.reasoning
                        \in {"Global nearest", "No speakers"}
                  /\ LastAligned.confidence[1] * 100
                        <= 30 * LastAligned.confidence[2]
                  /\ (speaker_vtt = <<>>) = (LastAligned.speaker = "Unknown")
             ELSE /\ LastAligned.reasoning = "Previous speaker"
                  /\ LastAligned.confidence = <<7, 20>>
                  /\ LastAligned.speaker = aligned[Len(aligned) - 1].speaker

(* C8 witness: a far segment decided after at least one other segment,     *)
(* with speaker segments in the timeline.                                  *)
C8_Witness ==
    /\ FarWithShortHistory
    /\ Len(aligned) >= 2
    /\ speaker_vtt # <<>>
    /\ LastAligned.match_type = "fallback"

(* C9: a segment with exactly one candidate of ratio r > 0.8 is emitted as *)
(* high_confidence with that candidate's speaker and the confidence        *)
(* min(0.99, r * confidence_multiplier * 1.1); r = 0.95 with multiplier 1  *)
(* gives 0.99.                                                             *)
C9_SingleStrongCandidate ==
    (pc = "loop" /\ Decided /\ Resolved(LastSeg)
       /\ Len(resolve(LastSeg)) = 1
       /\ resolve(LastSeg)[1].overlap_ratio[1] * 10
             > 8 * resolve(LastSeg)[1].overlap_ratio[2])
       => LET c == resolve(LastSeg)[1]
              num == c.overlap_ratio[1] * c.confidence_multiplier[1] * 11
              den == c.overlap_ratio[2] * c.confidence_multiplier[2] * 10
              conf == LastAligned.confidence
          IN  /\ LastAligned.match_type = "high_confidence"
              /\ LastAligned.speaker = c.speaker
              /\ IF num * 100 >= 99 * den
                 THEN conf = <<99, 100>>
                 ELSE conf[1] * den = num * conf[2]
              /\ (c.overlap_ratio = <<19, 20>>
                    /\ c.confidence_multiplier = <<1, 1>>)
                    => conf = <<99, 100>>

(* C9 witness: Scenario D, a single candidate of ratio 0.95, emitted. *)
C9_Witness ==
    /\ pc = "loop"
    /\ Decided
    /\ Resolved(LastSeg)
    /\ Len(resolve(LastSeg)) = 1
    /\ resolve(LastSeg)[1].overlap_ratio = <<19, 20>>
    /\ resolve(LastSeg)[1].confidence_multiplier = <<1, 1>>
    /\ LastAligned.confidence = <<99, 100>>

(***************************************************************************)
(* The ratios of find_speaker_candidates.                                  *)
(***************************************************************************)
SpeakersDisjoint ==
    \A a, b \in 1..Len(speaker_vtt) :
       a # b => calculate_overlap(speaker_vtt[a].start, speaker_vtt[a].end,
                                  speaker_vtt[b].start, speaker_vtt[b].end) = 0

RECURSIVE RatioSum(_)
RatioSum(cands) ==
    IF cands = <<>> THEN <<0, 1>>
    ELSE LET r == Head(cands).overlap_ratio
             rest == RatioSum(Tail(cands))
         IN  R(r[1] * rest[2] + rest[1] * r[2], r[2] * rest[2])

RatiosInUnitRange(cands) ==
    /\ \A k \in 1..Len(cands) :
          /\ RatLE(Zero, cands[k].overlap_ratio)
          /\ RatLE(cands[k].overlap_ratio, One)
    /\ RatLE(RatioSum(cands),
             FromInt(Cardinality(CandidateSpeakers(cands))))

(* C10: over a speaker timeline whose segments do not overlap each other,  *)
(* every candidate of the strict pass and of the tolerance pass of the     *)
(* orchestrator (tolerance 3.0) has a ratio in [0, 1], and the ratios of   *)
(* one text segment sum to at most the number of candidate speakers.       *)
C10_RatiosBounded ==
    (pc \in Rows /\ SpeakersDisjoint /\ Resolved(expanded_text_vtt[i + 1]))
       => /\ RatiosInUnitRange(strict_candidates(expanded_text_vtt[i + 1]))
          /\ RatiosInUnitRange(resolve(expanded_text_vtt[i + 1]))

(***************************************************************************)
(* calculate_overlap on the intervals of a run.                            *)
(***************************************************************************)
(* the intervals of the two timelines, each <<start, end>> *)
Intervals ==
    { <<speaker_vtt[k].start, speaker_vtt[k].end>> : k \in 1..Len(speaker_vtt) }
       \cup { <<text_vtt[k].start, text_vtt[k].end>> : k \in 1..Len(text_vtt) }

Overlap(a, b) == calculate_overlap(a[1], a[2], b[1], b[2])

(* the expansion, which calls calculate_overlap on every pair of a text    *)
(* and a speaker segment, has just run                                     *)
Expanded == pc = "loop" /\ i = 0

(* C11: calculate_overlap is non-negative and commutative in its two       *)
(* intervals, gives the duration of an interval for the interval and       *)
(* itself, and gives 0 for two intervals that are disjoint or touch at a   *)
(* boundary point.                                                         *)
C11_OverlapAlgebra ==
    Expanded =>
       \A a \in Intervals :
          /\ Overlap(a, a) = a[2] - a[1]
          /\ \A b \in Intervals :
                /\ Overlap(a, b) >= 0
                /\ Overlap(a, b) = Overlap(b, a)
                /\ (a[2] <= b[1] \/ b[2] <= a[1]) => Overlap(a, b) = 0

(* C11 witness: the timelines hold two intervals that touch at a boundary  *)
(* point, two that are apart, and two that share more than a point.        *)
C11_Witness ==
    /\ Expanded
    /\ \E a, b \in Intervals : a[1] < a[2] /\ a[2] = b[1] /\ b[1] < b[2]
    /\ \E a, b \in Intervals : a[2] < b[1]
    /\ \E a, b \in Intervals : a # b /\ Overlap(a, b) > 0

(***************************************************************************)
(* find_speaker_candidates, strict pass, against the sums taken from the   *)
(* speaker timeline directly.                                              *)
(***************************************************************************)
(* the summed overlap of t with the first k speaker segments labelled spk *)
RECURSIVE SummedOverlap(_, _, _)
SummedOverlap(t, spk, k) ==
    IF k = 0 THEN 0
    ELSE SummedOverlap(t, spk, k - 1)
         + (IF speaker_vtt[k].speaker = spk
            THEN calculate_overlap(speaker_vtt[k].start, speaker_vtt[k].end,
                                   t.start, t.end)
            ELSE 0)

TimelineSpeakers == { speaker_vtt[k].speaker : k \in 1..Len(speaker_vtt) }

(* the segments of spk that overlap t, by position in the timeline *)
OverlappingAt(t, spk) ==
    { k \in 1..Len(speaker_vtt) :
        /\ speaker_vtt[k].speaker = spk
        /\ calculate_overlap(speaker_vtt[k].start, speaker_vtt[k].end,
                             t.start, t.end) > 0 }

(* the position in the speaker timeline of the first segment of spk that   *)
(* overlaps t                                                              *)
FirstAppearance(t, spk) ==
    CHOOSE k \in OverlappingAt(t, spk) :
       \A j \in OverlappingAt(t, spk) : k <= j

(* one candidate per speaker with a positive overlap, carrying the sum of  *)
(* that speaker's overlaps, in non-increasing order of the sums            *)
SummedAndSorted(t, c) ==
    /\ \A k, l \in 1..Len(c) : k # l => c[k].speaker # c[l].speaker
    /\ CandidateSpeakers(c)
          = { spk \in TimelineSpeakers :
                SummedOverlap(t, spk, Len(speaker_vtt)) > 0 }
    /\ \A k \in 1..Len(c) :
          c[k].overlap_duration
             = SummedOverlap(t, c[k].speaker, Len(speaker_vtt))
    /\ \A k, l \in 1..Len(c) :
          k < l => c[k].overlap_duration >= c[l].overlap_duration

(* speakers with equal sums in the order of their first appearance *)
TiesInTimelineOrder(t, c) ==
    \A k, l \in 1..Len(c) :
       (k < l /\ c[k].overlap_duration = c[l].overlap_duration)
          => FirstAppearance(t, c[k].speaker)
                < FirstAppearance(t, c[l].speaker)

(* C12: find_speaker_candidates returns one candidate per speaker with a   *)
(* positive overlap, whose overlap_duration is the sum of the overlaps of  *)
(* that speaker's segments, sorted by non-increasing sum, and speakers     *)
(* with equal sums appear in the order in which they first appear in the   *)
(* speaker timeline.                                                       *)
C12_CandidatesSummedSortedStable ==
    Expanded =>
       \A n \in 1..Len(text_vtt) :
          LET c == find_speaker_candidates(text_vtt[n], speaker_vtt, 0)
          IN  /\ SummedAndSorted(text_vtt[n], c)
              /\ TiesInTimelineOrder(text_vtt[n], c)

(***************************************************************************)
(* The splitter on segments it has no reason to split.                     *)
(***************************************************************************)
(* no speaker segment overlaps t, or all that do carry one speaker, or the *)
(* text of t has at most one sentence                                      *)
NothingToSplit(t) ==
    \/ OverlappingSpeakers(t) = {}
    \/ Cardinality(OverlappingSpeakers(t)) = 1
    \/ Len(Sentences(t)) <= 1

(* C13: the splitter returns the one-element list of the input segment,    *)
(* unchanged, when no speaker segment overlaps it, or all overlapping ones *)
(* carry the same speaker, or its text has at most one sentence; applied   *)
(* to that result it returns the same segment again; and it never returns  *)
(* an empty list.                                                          *)
C13_SplitterLeavesUnsplit ==
    Expanded =>
       \A n \in 1..Len(text_vtt) :
          LET t == text_vtt[n]
              out == split_turboscribe_segment_by_speakers(t, speaker_vtt)
          IN  /\ out # <<>>
              /\ NothingToSplit(t) =>
                    /\ out = <<t>>
                    /\ split_turboscribe_segment_by_speakers(out[1],
                                                             speaker_vtt)
                          = <<t>>

(* C13 witness: a one-sentence text segment under two speakers, a text     *)
(* segment under one speaker and one under none were left as they are.     *)
C13_Witness ==
    /\ Expanded
    /\ expanded_text_vtt = text_vtt
    /\ \E n \in 1..Len(text_vtt) :
          /\ Cardinality(OverlappingSpeakers(text_vtt[n])) >= 2
          /\ Len(Sentences(text_vtt[n])) = 1
    /\ \E n \in 1..Len(text_vtt) : OverlappingSpeakers(text_vtt[n]) = {}

(***************************************************************************)
(* The oracle counters.                                                    *)
(***************************************************************************)
(* the step is an oracle attempt *)
Attempt == llm_stats'.attempts = llm_stats.attempts + 1

(* the client of the attempt returned a response: the call did not raise *)
ClientAnswered == client /\ last_call'[1].response.kind # "raise"

CountersConsistent ==
    /\ llm_stats'.attempts >= llm_stats'.actual_calls + llm_stats'.fallbacks
    /\ llm_stats'.attempts \in {llm_stats.attempts, llm_stats.attempts + 1}
    /\ ~client =>
          /\ llm_stats'.actual_calls = 0
          /\ llm_stats'.fallbacks = llm_stats'.attempts
    /\ client =>
          /\ llm_stats'.fallbacks = 0
          /\ llm_stats'.actual_calls
                = llm_stats.actual_calls
                    + (IF Attempt /\ ClientAnswered THEN 1 ELSE 0)

(* C14: at every point attempts >= actual_calls + fallbacks; without a     *)
(* client every attempt increments fallbacks and actual_calls stays 0;     *)
(* with a client fallbacks stays 0 and actual_calls grows by one exactly   *)
(* in the attempts for which the client returned a response.               *)
C14_OracleCounters == [][CountersConsistent]_vars

(* C14 witness: with a client, two attempts of which one was answered. *)
C14_Witness ==
    /\ client
    /\ llm_stats.attempts = 2
    /\ llm_stats.actual_calls = 1
    /\ llm_stats.fallbacks = 0

(***************************************************************************)
(* The empty result.                                                       *)
(***************************************************************************)
(* the run is over: align_with_llm returned or an exception left it *)
Terminated == pc \in {"done", "raised"}

(* lines 908-911 and 925: the list handed to main, empty or not *)
ReturnedEmpty == pc = "done" /\ aligned = <<>>

ReturnedSegments == pc = "done" /\ Len(aligned) >= 1

(* C15: align_with_llm returns an empty result if and only if the text     *)
(* timeline is empty; a run on a non-empty text timeline yields at least   *)
(* one aligned segment, whatever the speaker timeline and the oracle.      *)
C15_EmptyResultIffEmptyText ==
    Terminated =>
       /\ ReturnedEmpty <=> text_vtt = <<>>
       /\ text_vtt # <<>> => ReturnedSegments

(***************************************************************************)
(* generate_vtt and the two parsers of the block-structured format.  The   *)
(* written file is the sequence of its cue blocks after the WEBVTT block,  *)
(* which both parsers skip; a block is its number line, the two stamps of  *)
(* its timing line and its payload line, a sequence of tokens.             *)
(***************************************************************************)
Colon == ": "

(* lines 1111-1120: hours, minutes and the seconds written with three      *)
(* decimals, kept as milliseconds                                          *)
format_timestamp(seconds) ==
    << seconds \div 3600, (seconds % 3600) \div 60, (seconds % 60) * 1000 >>

(* lines 1109-1124 *)
generate_vtt(segments) ==
    [k \in 1..Len(segments) |->
        [number  |-> k,
         start_ts |-> format_timestamp(segments[k].start),
         end_ts   |-> format_timestamp(segments[k].end),
         payload  |-> <<segments[k].speaker, Colon>> \o segments[k].text]]

(* h * 3600 + m * 60 + float(s); the stamps written for the whole seconds  *)
(* of the timelines have no fractional part                                *)
parse_timestamp(ts) == ts[1] * 3600 + ts[2] * 60 + ts[3] \div 1000

(* lines 108-115: the label before the first colon of the first text line *)
speaker_label(payload) ==
    IF Len(payload) >= 2 /\ payload[1] # "" /\ payload[2] = Colon
    THEN payload[1]
    ELSE "Unknown"

(* lines 82-117: the number line is dropped, the text is stored empty *)
parse_vtt_with_speakers(blocks) ==
    [k \in 1..Len(blocks) |->
        VTTSegment(parse_timestamp(blocks[k].start_ts),
                   parse_timestamp(blocks[k].end_ts),
                   speaker_label(blocks[k].payload), <<>>)]

(* lines 206-244: the number line is dropped, the whole payload line is    *)
(* the text (no payload of generate_vtt for the labels of SpeakerPool      *)
(* starts with a [SPEAKER_n] tag), the speaker is stored empty             *)
parse_vtt_without_speakers(blocks) ==
    [k \in 1..Len(blocks) |->
        VTTSegment(parse_timestamp(blocks[k].start_ts),
                   parse_timestamp(blocks[k].end_ts),
                   "", blocks[k].payload)]

Tuples(segments) ==
    [k \in 1..Len(segments) |->
        << segments[k].start, segments[k].end, segments[k].speaker,
           segments[k].text >>]

FallbackHasRealSpeaker ==
    /\ pc \in {"smart_fallback", "fallback_llm"}
    /\ fallback_result[1].speaker # "Unknown"

RealFallbackEmitted ==
    FallbackHasRealSpeaker =>
       /\ Len(aligned') = Len(aligned) + 1
       /\ aligned'[Len(aligned')].speaker = fallback_result[1].speaker
       /\ aligned'[Len(aligned')].match_type = "fallback"
       /\ llm_stats' = llm_stats

(* C17: a segment with no candidates after the tolerant pass for which     *)
(* smart_fallback returns a real speaker is emitted with that speaker and  *)
(* match_type fallback, and the oracle branch over pseudo-candidates is    *)
(* not taken for it.                                                       *)
C17_RealFallbackBeforeOracle == [][RealFallbackEmitted]_vars

(* the segment under decision has two or more candidates and the overlap   *)
(* ratio of the first exceeds 0.8                                          *)
DominantAmongSeveral ==
    /\ pc \in {"single_speaker", "ambiguous", "dominant"}
    /\ Len(candidates) >= 2
    /\ RatLT(R(8, 10), candidates[1].overlap_ratio)

DominantEmittedWithoutOracle ==
    DominantAmongSeveral =>
       /\ Len(aligned') = Len(aligned) + 1
       /\ aligned'[Len(aligned')].speaker = candidates[1].speaker
       /\ aligned'[Len(aligned')].match_type = "high_confidence"
       /\ aligned'[Len(aligned')].confidence
             = RatMul(candidates[1].overlap_ratio,
                      candidates[1].confidence_multiplier)
       /\ llm_stats' = llm_stats
       /\ last_call' = last_call

(* C18: with two or more candidates and a top overlap ratio above 0.8 the  *)
(* segment is emitted with the top candidate's speaker as high_confidence, *)
(* at ratio times multiplier without the factor 1.1, and the oracle is not *)
(* invoked, whatever the ratio of the second candidate.                    *)
C18_DominantBeforeAmbiguous == [][DominantEmittedWithoutOracle]_vars

(***************************************************************************)
(* The following context of an oracle call.  Runs on longer text timelines *)
(* of fewer kinds of segment: a text that is split, an ambiguous one, and  *)
(* texts that follow them.                                                 *)
(***************************************************************************)
ContextPool == << TextPool[1], TextPool[4], TextPool[2], TextPool[8] >>

InitContext ==
    /\ speaker_vtt \in Timelines(SpeakerPool, MaxContextSpk)
    /\ text_vtt \in Timelines(ContextPool, MaxContextText)
    /\ client \in BOOLEAN
    /\ expanded_text_vtt = <<>>
    /\ aligned = NewRun.aligned
    /\ stats = NewRun.stats
    /\ llm_stats = NewRun.llm_stats
    /\ i = NewRun.i
    /\ pc = NewRun.pc
    /\ candidates = NewRun.candidates
    /\ used_tolerance = NewRun.used_tolerance
    /\ fallback_result = NewRun.fallback_result
    /\ last_call = NewRun.last_call
    /\ twin = NewRun

SpecContext == InitContext /\ [][Next]_vars

(* the position in text_vtt of the text segment whose expansion holds the  *)
(* segment of 0-based index idx of expanded_text_vtt                       *)
Origin(idx) ==
    CHOOSE j \in 1..Len(text_vtt) :
       /\ Len(expand(FirstN(text_vtt, j - 1), speaker_vtt)) <= idx
       /\ idx < Len(expand(FirstN(text_vtt, j), speaker_vtt))

(* the list is a run of consecutive segments of text_vtt that starts      *)
(* after position j                                                        *)
RawSegmentsAfter(list, j) ==
    \E p \in (j + 1)..(Len(text_vtt) + 1 - Len(list)) :
       list = SubSeq(text_vtt, p, p + Len(list) - 1)

(* C19: the following context handed to the oracle holds at most two       *)
(* segments, each a segment of the raw text timeline placed after the one  *)
(* the segment under decision came from, also when the splitter expanded   *)
(* earlier text segments and the two indices differ.                       *)
C19_ContextAfterFollows ==
    \A k \in 1..Len(last_call) :
       /\ Len(last_call[k].context_after) <= 2
       /\ RawSegmentsAfter(last_call[k].context_after,
                           Origin(last_call[k].index))

(* C19 witness: an oracle call for a segment whose index was shifted by    *)
(* the expansion of an earlier text, with a following context.             *)
C19_Witness ==
    /\ last_call # <<>>
    /\ last_call[1].index + 1 > Origin(last_call[1].index)
    /\ last_call[1].context_after # <<>>

(***************************************************************************)
(* The first strategy of smart_fallback.                                   *)
(***************************************************************************)
(* lines 362-365: spk has a speaker segment in the window of text_seg *)
InWindow(spk, text_seg) ==
    \E k \in 1..Len(speaker_vtt) :
       /\ speaker_vtt[k].speaker = spk
       /\ Abs(speaker_vtt[k].start - text_seg.start) < time_window

(* spk occurs three times or more among the five most recent aligned       *)
(* segments and has a speaker segment in the window of text_seg            *)
ActiveNearby(spk, text_seg) ==
    /\ CountSpeaker(LastN(aligned, 5), spk) >= 3
    /\ InWindow(spk, text_seg)

(* C20: whenever some speaker occurs at least 3 times among the 5 most     *)
(* recent aligned segments and has a speaker segment within the window of  *)
(* the target segment, smart_fallback returns that speaker at confidence   *)
(* 0.65.                                                                   *)
C20_ActiveSpeakerReturned ==
    pc \in {"smart_fallback", "fallback_llm"} =>
       \A spk \in TimelineSpeakers :
          ActiveNearby(spk, expanded_text_vtt[i + 1]) =>
             /\ fallback_result[1].speaker = spk
             /\ fallback_result[1].confidence = R(65, 100)

(***************************************************************************)
(* Strategies 2 to 5 of smart_fallback.                                    *)
(***************************************************************************)
(* the segment smart_fallback was called for, and what it returned *)
FallbackTarget == expanded_text_vtt[i + 1]

FallbackReturned == fallback_result[1]

FallbackCalled == pc \in {"smart_fallback", "fallback_llm"}

(* lines 368-373: the speaker of the last aligned segment fills three or   *)
(* more of the last five and has a speaker segment in the window           *)
Strategy1Applies ==
    /\ Len(aligned) >= 3
    /\ ActiveNearby(aligned[Len(aligned)].speaker, FallbackTarget)

(* the positions of the speaker segments in the window, lines 362-365 *)
Nearby ==
    { k \in 1..Len(speaker_vtt) :
        Abs(speaker_vtt[k].start - FallbackTarget.start) < time_window }

(* lines 382-390: the distance of a speaker segment's nearer boundary to   *)
(* the start of the target                                                 *)
StartDistance(k) ==
    Min2(Abs(speaker_vtt[k].start - FallbackTarget.start),
         Abs(speaker_vtt[k].end - FallbackTarget.start))

(* lines 410-413: its start to the target's start, or its end to the       *)
(* target's end                                                            *)
GlobalDistance(k) ==
    Min2(Abs(speaker_vtt[k].start - FallbackTarget.start),
         Abs(speaker_vtt[k].end - FallbackTarget.end))

(* max(0.4, 0.7 - 0.3 * d / 10), line 392 *)
DecayedConfidence(d) ==
    RatMax(R(4, 10), RatSub(R(7, 10), R(3 * d, 10 * time_window)))

NearestInWindow ==
    \E k \in Nearby :
       /\ \A n \in Nearby : StartDistance(k) <= StartDistance(n)
       /\ FallbackReturned.speaker = speaker_vtt[k].speaker
       /\ FallbackReturned.confidence = DecayedConfidence(StartDistance(k))
       /\ RatLE(R(4, 10), FallbackReturned.confidence)
       /\ RatLE(FallbackReturned.confidence, R(7, 10))

PreviousSpeaker ==
    /\ FallbackReturned.speaker = aligned[Len(aligned)].speaker
    /\ FallbackReturned.confidence = R(35, 100)

GlobalNearest ==
    /\ \E k \in 1..Len(speaker_vtt) :
          /\ \A n \in 1..Len(speaker_vtt) :
                GlobalDistance(k) <= GlobalDistance(n)
          /\ FallbackReturned.speaker = speaker_vtt[k].speaker
    /\ FallbackReturned.confidence = R(30, 100)

Sentinel ==
    /\ FallbackReturned.speaker = "Unknown"
    /\ FallbackReturned.confidence = FromInt(0)

(* C21: when strategy 1 does not apply, smart_fallback returns the nearest *)
(* speaker segment of the window at max(0.4, 0.7 - 0.3 d / 10), within     *)
(* [0.4, 0.7]; else the speaker of the last aligned segment at 0.35; else  *)
(* the globally nearest speaker segment at 0.30; else the sentinel at 0.   *)
(* Strategies 4 and 5 are reached only with no aligned segment before the  *)
(* target, and the call never raises.                                      *)
C21_FallbackStrategiesInOrder ==
    (FallbackCalled /\ ~Strategy1Applies) =>
       /\ IF Nearby # {} THEN NearestInWindow
          ELSE IF aligned # <<>> THEN PreviousSpeaker
          ELSE IF speaker_vtt # <<>> THEN GlobalNearest
          ELSE Sentinel
       /\ FallbackReturned.reasoning \in {"Global nearest", "No speakers"}
             => aligned = <<>>

(* C21 witness: the nearest segment of the window is chosen, at a distance *)
(* that lowers the confidence, with aligned segments before the target.    *)
C21_Witness ==
    /\ FallbackCalled
    /\ ~Strategy1Applies
    /\ Nearby # {}
    /\ aligned # <<>>
    /\ FallbackReturned.reasoning = "Nearest"
    /\ RatLT(FallbackReturned.confidence, R(7, 10))

(***************************************************************************)
(* The no-candidate branch.                                                *)
(***************************************************************************)
(* line 794 *)
OracleForFallback ==
    /\ client
    /\ Len(aligned) >= 5
    /\ RatLT(FallbackReturned.confidence, R(6, 10))

(* the candidates handed to the oracle: ratio 0, at most 5 distinct        *)
(* speakers of the last 10 aligned segments                                *)
PseudoCandidates(cands) ==
    /\ Len(cands) <= 5
    /\ \A k \in 1..Len(cands) :
          /\ cands[k].overlap_ratio = FromInt(0)
          /\ \E n \in 1..Len(LastN(aligned, 10)) :
                LastN(aligned, 10)[n].speaker = cands[k].speaker
          /\ \A n \in 1..Len(cands) :
                n # k => cands[n].speaker # cands[k].speaker

NoCandidateBranch ==
    FallbackCalled =>
       /\ Len(aligned') = Len(aligned) + 1
       /\ IF OracleForFallback
          THEN /\ llm_stats'.attempts = llm_stats.attempts + 1
               /\ PseudoCandidates(last_call'[1].candidates)
               /\ aligned'[Len(aligned')].match_type = "llm_resolved"
               /\ aligned'[Len(aligned')].confidence
                     = RatMul(last_call'[1].result.confidence, R(85, 100))
          ELSE /\ llm_stats' = llm_stats
               /\ last_call' = last_call
               /\ aligned'[Len(aligned')].match_type = "fallback"
               /\ aligned'[Len(aligned')].speaker = FallbackReturned.speaker
               /\ aligned'[Len(aligned')].confidence
                     = FallbackReturned.confidence

(* C22: in the no-candidate branch, with a client, 5 or more aligned       *)
(* segments and a smart-fallback confidence below 0.6 the oracle is        *)
(* invoked with pseudo-candidates of ratio 0 built from at most 5 distinct *)
(* speakers of the last 10 aligned segments, attempts grows by one and the *)
(* segment is emitted as llm_resolved with the result's confidence times   *)
(* 0.85; otherwise the oracle is not invoked and the smart-fallback result *)
(* is emitted as fallback.                                                 *)
C22_NoCandidateBranch == [][NoCandidateBranch]_vars

(***************************************************************************)
(* Strict and tolerance candidates.                                        *)
(***************************************************************************)
(* some speaker segment has a positive strict overlap with t, lines 274-277 *)
StrictOverlapExists(t) ==
    \E k \in 1..Len(speaker_vtt) :
       calculate_overlap(speaker_vtt[k].start, speaker_vtt[k].end,
                         t.start, t.end) > 0

HasTolerance(cands) == \E k \in 1..Len(cands) : cands[k].used_tolerance

HasStrict(cands) == \E k \in 1..Len(cands) : ~cands[k].used_tolerance

Unmixed(cands, t) ==
    /\ HasTolerance(cands) => ~StrictOverlapExists(t)
    /\ ~(HasStrict(cands) /\ HasTolerance(cands))

(* C23 as stated: for every text segment, the list find_speaker_candidates *)
(* returns with a tolerance above 0 holds tolerance candidates only when   *)
(* no speaker segment overlaps the text segment strictly, and never both   *)
(* a strict and a tolerance candidate.                                     *)
C23_ToleranceCallUnmixed ==
    Expanded =>
       \A j \in 1..Len(expanded_text_vtt) :
          ~find_speaker_candidates_raises(expanded_text_vtt[j], speaker_vtt, 3)
             => Unmixed(find_speaker_candidates(expanded_text_vtt[j],
                                                speaker_vtt, 3),
                        expanded_text_vtt[j])

(* the loop body holds the candidates of the segment under decision *)
CandidatesResolved == pc \in {"single_speaker", "ambiguous", "dominant"}

(* C23 amended: the candidates align_with_llm decides a segment on hold    *)
(* tolerance candidates only when no speaker segment overlaps the segment  *)
(* strictly, and never both kinds: the call with tolerance 3 is made only  *)
(* after the strict call returned nothing.                                 *)
C23_ResolvedCandidatesUnmixed ==
    CandidatesResolved =>
       /\ Unmixed(candidates, expanded_text_vtt[i + 1])
       /\ \A k \in 1..Len(candidates) :
             candidates[k].used_tolerance = used_tolerance

(* C23 witness: a segment decided on a tolerance candidate, found after the *)
(* strict call returned nothing.                                           *)
C23_Witness ==
    /\ CandidatesResolved
    /\ used_tolerance
    /\ HasTolerance(candidates)
    /\ strict_candidates(expanded_text_vtt[i + 1]) = <<>>

(***************************************************************************)
(* The multiplier of a candidate.                                          *)
(***************************************************************************)
(* lines 291-294: the gap between the unexpanded speaker segment and t *)
Gap(spk_seg, t) ==
    Min2(Abs(spk_seg.end - t.start), Abs(t.end - spk_seg.start))

(* max(0.85, 1 - (gap / (2 * tolerance)) * 0.15), line 295 *)
Penalty(gap, tolerance) ==
    RatMax(R(85, 100), RatSub(FromInt(1), R(15 * gap, 200 * tolerance)))

(* the speaker segments found only through the tolerance, lines 280-289 *)
FoundByTolerance(k, t, tolerance) ==
    /\ calculate_overlap(speaker_vtt[k].start, speaker_vtt[k].end,
                         t.start, t.end) = 0
    /\ calculate_overlap(speaker_vtt[k].start - tolerance,
                         speaker_vtt[k].end + tolerance, t.start, t.end) > 0

MultiplierLaw(c, t, tolerance) ==
    IF c.used_tolerance
    THEN /\ \E k \in 1..Len(speaker_vtt) :
               /\ speaker_vtt[k].speaker = c.speaker
               /\ FoundByTolerance(k, t, tolerance)
               /\ c.confidence_multiplier
                     = Penalty(Gap(speaker_vtt[k], t), tolerance)
         /\ RatLE(R(85, 100), c.confidence_multiplier)
         /\ RatLE(c.confidence_multiplier, FromInt(1))
    ELSE c.confidence_multiplier = FromInt(1)

(* C24: every candidate found by the tolerance pass has the multiplier     *)
(* max(0.85, 1 - (gap / (2 * tolerance)) * 0.15), gap the smaller of       *)
(* |spk.end - text.start| and |text.end - spk.start| on the unexpanded     *)
(* speaker segment, within [0.85, 1]; every strict candidate has the       *)
(* multiplier 1 and used_tolerance false.                                  *)
C24_MultiplierOfCandidates ==
    CandidatesResolved =>
       /\ \A k \in 1..Len(candidates) :
             MultiplierLaw(candidates[k], expanded_text_vtt[i + 1], 3)
       /\ LET strict == strict_candidates(expanded_text_vtt[i + 1])
          IN  \A k \in 1..Len(strict) :
                 /\ strict[k].confidence_multiplier = FromInt(1)
                 /\ ~strict[k].used_tolerance

(* C24 witness: a tolerance candidate with a multiplier strictly between   *)
(* 0.85 and 1.                                                             *)
C24_Witness ==
    /\ CandidatesResolved
    /\ used_tolerance
    /\ candidates[1].used_tolerance
    /\ RatLT(R(85, 100), candidates[1].confidence_multiplier)
    /\ RatLT(candidates[1].confidence_multiplier, FromInt(1))

(***************************************************************************)
(* The error fallback of the adapter.                                      *)
(***************************************************************************)
(* the step calls the adapter with a client, and the call raises or its    *)
(* content does not parse                                                  *)
OracleFails ==
    /\ client
    /\ pc \in {"ambiguous", "fallback_llm"}
    /\ last_call'[1].response.kind \in {"raise", "garbage"}

ErrorFallback ==
    OracleFails =>
       LET call == last_call'[1]
       IN  /\ call.result.speaker = call.candidates[1].speaker
           /\ call.result.confidence
                 = RatMul(call.candidates[1].overlap_ratio, R(8, 10))
           /\ call.result.reasoning = "LLM error, fallback to top candidate"
           /\ llm_stats'.actual_calls
                 = llm_stats.actual_calls
                     + (IF call.response.kind = "garbage" THEN 1 ELSE 0)
           /\ llm_stats'.fallbacks = llm_stats.fallbacks

(* C25: when the call of a configured oracle raises or its response does   *)
(* not parse, ask_llm_for_speaker returns the top candidate's speaker at   *)
(* its overlap ratio times 0.8 with the reasoning of the error fallback;   *)
(* actual_calls grows only when the client returned a response before the  *)
(* failure, and fallbacks does not grow.                                   *)
C25_ErrorFallsBackToTop == [][ErrorFallback]_vars

(* C25 witness: a response that did not parse, answered by the top         *)
(* candidate of a positive ratio and counted as an actual call.            *)
C25_Witness ==
    /\ last_call # <<>>
    /\ last_call[1].response.kind = "garbage"
    /\ RatLT(FromInt(0), last_call[1].candidates[1].overlap_ratio)
    /\ last_call[1].result.reasoning = "LLM error, fallback to top candidate"
    /\ llm_stats.actual_calls >= 1

(***************************************************************************)
(* The sub-intervals of a split.                                           *)
(***************************************************************************)
(* the n-th retained sentence of t, by position in the text *)
NthRetained(t, n) ==
    CHOOSE k \in RetainedSentences(t) :
       Cardinality({ j \in RetainedSentences(t) : j < k }) = n - 1

(* the overlap of the speaker segment at position m with the k-th          *)
(* sub-interval of t, when the segment overlaps t; 0 otherwise             *)
SentenceOverlap(t, k, m) ==
    IF calculate_overlap(speaker_vtt[m].start, speaker_vtt[m].end,
                         t.start, t.end) > 0
    THEN calculate_overlap(speaker_vtt[m].start, speaker_vtt[m].end,
                           t.start + (k - 1) * SentenceWidth(t),
                           t.start + k * SentenceWidth(t))
    ELSE 0

(* the speaker segment at m has the largest overlap with the k-th          *)
(* sub-interval and starts no later than any other of that overlap         *)
LargestEarliest(t, k, m) ==
    /\ SentenceOverlap(t, k, m) > 0
    /\ \A n \in 1..Len(speaker_vtt) :
          /\ SentenceOverlap(t, k, n) <= SentenceOverlap(t, k, m)
          /\ SentenceOverlap(t, k, n) = SentenceOverlap(t, k, m)
                => speaker_vtt[m].start <= speaker_vtt[n].start

DoesSplit(t) == SplitApplies(t) /\ RetainedSentences(t) # {}

SplitLaw(t) ==
    LET parts == split_turboscribe_segment_by_speakers(t, speaker_vtt)
    IN  /\ SentenceWidth(t) * Len(Sentences(t)) = t.end - t.start
        /\ Len(parts) = Cardinality(RetainedSentences(t))
        /\ \A n \in 1..Len(parts) :
              LET k == NthRetained(t, n)
              IN  /\ parts[n].start = t.start + (k - 1) * SentenceWidth(t)
                  /\ parts[n].end = t.start + k * SentenceWidth(t)
                  /\ parts[n].text = strip(Sentences(t)[k])
                  /\ \E m \in 1..Len(speaker_vtt) :
                        /\ LargestEarliest(t, k, m)
                        /\ parts[n].speaker = speaker_vtt[m].speaker

(* C26: a split cuts the interval of the text segment into N consecutive   *)
(* sub-intervals of width duration / N from its start, N the number of     *)
(* sentences; the k-th sentence goes with the k-th sub-interval and gets   *)
(* the speaker of the overlapping speaker segment with the largest overlap *)
(* with it, the earliest-starting one on a tie; a sentence is dropped only *)
(* when no overlapping speaker segment overlaps its sub-interval, and the  *)
(* retained sentences keep their order.                                    *)
C26_SplitIntoEqualSubIntervals ==
    Expanded =>
       \A j \in 1..Len(text_vtt) : DoesSplit(text_vtt[j]) => SplitLaw(text_vtt[j])

(* C26 witness: a split that drops a sentence and decides another on a tie *)
(* between two speaker segments.                                           *)
C26_Witness ==
    /\ Expanded
    /\ \E j \in 1..Len(text_vtt) :
          LET t == text_vtt[j]
          IN  /\ DoesSplit(t)
              /\ Cardinality(RetainedSentences(t)) < Len(Sentences(t))
              /\ \E k \in RetainedSentences(t) :
                    \E m, n \in 1..Len(speaker_vtt) :
                       /\ m # n
                       /\ LargestEarliest(t, k, m)
                       /\ SentenceOverlap(t, k, n) = SentenceOverlap(t, k, m)

(***************************************************************************)
(* The order of the decisions.                                             *)
(***************************************************************************)
(* the k-th aligned segment is the decision of the k-th expanded segment *)
DecidedInPlace(al, expanded) ==
    /\ Len(al) <= Len(expanded)
    /\ \A k \in 1..Len(al) :
          /\ al[k].start = expanded[k].start
          /\ al[k].end = expanded[k].end
          /\ al[k].text = expanded[k].text

InSequence ==
    /\ Len(aligned') \in {Len(aligned), Len(aligned) + 1}
    /\ SubSeq(aligned', 1, Len(aligned)) = aligned
    /\ DecidedInPlace(aligned', expanded_text_vtt')
    /\ pc' \in Rows \cup {"loop", "done"} => i' = Len(aligned')
    /\ last_call' # last_call =>
          /\ last_call'[1].index = Len(aligned)
          /\ last_call'[1].context_before = LastN(aligned, 5)
    /\ fallback_result' # fallback_result =>
          fallback_result'[1]
             = smart_fallback(expanded_text_vtt[Len(aligned) + 1], speaker_vtt,
                              LastN(aligned, 10))

(* C27: the expanded segments are decided strictly in sequence order and   *)
(* the output list is append-only: the k-th aligned segment has the start, *)
(* end and text of the k-th expanded segment, and the decision of a        *)
(* segment reads only the segments aligned before it, at most the last 10. *)
C27_DecidedInSequence == [][InSequence]_vars

(* C27 witness: a decision made by the oracle on the context of the        *)
(* segments decided before it, after several segments were appended.       *)
C27_Witness ==
    /\ pc = "loop"
    /\ Len(aligned) >= 3
    /\ last_call # <<>>
    /\ last_call[1].index = Len(aligned) - 1
    /\ Len(last_call[1].context_before) = Len(aligned) - 1

(***************************************************************************)
(* The decision counters.                                                  *)
(***************************************************************************)
Decisions(st) == st.high_confidence + st.llm_resolved + st.fallback

DecisionCounters ==
    /\ Decisions(stats') = Len(aligned')
    /\ stats'.high_confidence >= stats.high_confidence
    /\ stats'.llm_resolved >= stats.llm_resolved
    /\ stats'.fallback >= stats.fallback
    /\ Decisions(stats') - Decisions(stats) = Len(aligned') - Len(aligned)
    /\ Decisions(stats') - Decisions(stats) \in {0, 1}
    /\ stats'.llm_resolved = llm_stats'.attempts

(* C28: at every point high_confidence + llm_resolved + fallback equals    *)
(* the number of aligned segments, each processed segment increments       *)
(* exactly one of the three by one, none decreases, and llm_resolved       *)
(* equals the attempts of llm_stats: every entry of the oracle path gives  *)
(* exactly one llm_resolved segment.                                       *)
C28_DecisionCounters == [][DecisionCounters]_vars

(***************************************************************************)
(* Text segments of zero duration.                                         *)
(***************************************************************************)
ZeroDuration(t) == t.start = t.end

(* find_speaker_candidates returns the empty list for t under every        *)
(* tolerance from 0 to the 3 of the tolerant call                          *)
NoCandidatesNoRaise(t) ==
    \A tolerance \in 0..3 :
       /\ ~find_speaker_candidates_raises(t, speaker_vtt, tolerance)
       /\ find_speaker_candidates(t, speaker_vtt, tolerance) = <<>>

ZeroDurationResolved ==
    /\ Expanded =>
          \A k \in 1..Len(expanded_text_vtt) :
             ZeroDuration(expanded_text_vtt[k])
                => NoCandidatesNoRaise(expanded_text_vtt[k])
    /\ ( /\ pc = "loop"
         /\ i < Len(expanded_text_vtt)
         /\ ZeroDuration(expanded_text_vtt[i + 1]) )
          => /\ pc' \in {"smart_fallback", "fallback_llm"}
             /\ candidates' = <<>>
             /\ fallback_result'[1]
                   = smart_fallback(expanded_text_vtt[i + 1], speaker_vtt,
                                    LastN(aligned, 10))

(* C29: for a text segment of zero duration find_speaker_candidates        *)
(* returns without raising, for every speaker timeline and every           *)
(* tolerance, and returns the empty list: the division by the duration is  *)
(* never executed with a zero divisor, and align_with_llm sends the        *)
(* segment to smart fallback.                                              *)
C29_ZeroDurationToFallback == [][ZeroDurationResolved]_vars

(* C29 witness: a zero-duration segment inside a speaker segment, sent to  *)
(* smart fallback.                                                         *)
C29_Witness ==
    /\ FallbackCalled
    /\ ZeroDuration(FallbackTarget)
    /\ \E k \in 1..Len(speaker_vtt) :
          /\ speaker_vtt[k].start < FallbackTarget.start
          /\ FallbackTarget.start < speaker_vtt[k].end

(***************************************************************************)
(* The empty speaker timeline without a client.                            *)
(***************************************************************************)
NoSpeakersNoClient == speaker_vtt = <<>> /\ ~client

(* the k-th aligned segment is the k-th text segment under the sentinel    *)
(* speaker, as a fallback of the given confidence                          *)
SentinelSegment(k, confidence) ==
    /\ aligned[k].start = text_vtt[k].start
    /\ aligned[k].end = text_vtt[k].end
    /\ aligned[k].text = text_vtt[k].text
    /\ aligned[k].speaker = "Unknown"
    /\ aligned[k].match_type = "fallback"
    /\ aligned[k].confidence = confidence

(* C30: with an empty speaker timeline and no client, align_with_llm       *)
(* emits one segment per text segment, each a fallback under the speaker   *)
(* 'Unknown'; the first has confidence 0.0 and every later one 0.35, the   *)
(* previous-speaker strategy reusing the sentinel speaker.                 *)
C30_EmptyTimelineSentinels ==
    NoSpeakersNoClient =>
       /\ pc # "raised"
       /\ pc # "split" => expanded_text_vtt = text_vtt
       /\ Len(aligned) <= Len(text_vtt)
       /\ pc = "done" => Len(aligned) = Len(text_vtt)
       /\ stats.fallback = Len(aligned)
       /\ \A k \in 1..Len(aligned) :
             SentinelSegment(k, IF k = 1 THEN FromInt(0) ELSE R(35, 100))

(* C30 witness: a finished run of three or more text segments against the  *)
(* empty timeline, without a client.                                       *)
C30_Witness ==
    /\ NoSpeakersNoClient
    /\ pc = "done"
    /\ Len(aligned) >= 3
    /\ aligned[3].reasoning = "Previous speaker"

====
